---- MODULE Spec2Model ----
(***************************************************************************)
(* Model of the bardscan dependency scanner: the OSV client with its       *)
(* on-disk advisory cache (osv-client.ts), the scan orchestrator (scan.ts) *)
(* the scan command of the CLI (cli/src/index.ts) and the library          *)
(* functions sortFindings, shouldFail (report.ts) and parsePackageLock     *)
(* (lock-parser.ts).                                                       *)
(*                                                                         *)
(* Numbers with one decimal (CVSS scores) are kept in tenths: 9.0 is 90.   *)
(* An absent (undefined) field of a JavaScript object is the value         *)
(* Undefined; JSON text is modelled as an object that has no key for an    *)
(* undefined field, which is what JSON.stringify produces.                 *)
(***************************************************************************)
EXTENDS Integers, Sequences, FiniteSets, TLC

VARIABLES
  now,      \* Date.now(), in milliseconds
  fs,       \* the cache directory: batch, details, nvd and ghsa namespaces
  call,     \* the last OsvClient.batchQuery call: inputs, result, effects
  scan,     \* the last runScan call: options and the ScanReport
  cli,      \* the last scan command: flags, what ran, exit code
  lib,      \* the last call of a library function: arguments and result
  pool,     \* the enrichment pass in progress: queue, workers, results
  runs      \* two batchQuery calls in progress on one cache directory

vars == <<now, fs, call, scan, cli, lib, pool, runs>>

\* ------------------------------------------------------------------ bounds
MaxPkgs == 2        \* packages in one batchQuery / dependencies of a lockfile
MaxClock == 2       \* instants of the clock after the first
MaxFindings == 3    \* findings in one call of sortFindings
MaxEntries == 3     \* entries of the packages object of a lockfile
MaxVulns == 3       \* vulnerabilities of one lookup result that is graded
MaxItems == 7       \* unresolved vulnerabilities of one enrichment pass

\* --------------------------------------------------------------- constants
TTL_MS == 24 * 60 * 60 * 1000
ENRICH_CONCURRENCY == 6

Undefined == "undefined"

Severities == {"critical", "high", "medium", "low", "unknown"}
KnownSeverities == Severities \ {"unknown"}
Confidences == {"high", "medium", "low", "unknown"}
FailOns == Severities \cup {"none"}

\* ------------------------------------------------------------ small helpers
Range(s) == {s[i] : i \in 1..Len(s)}

SeqsUpTo(S, n) == UNION {[1..k -> S] : k \in 0..n}

RECURSIVE SumOver(_, _)
SumOver(f, S) ==
  IF S = {} THEN 0
  ELSE LET x == CHOOSE y \in S : TRUE IN f[x] + SumOver(f, S \ {x})

RECURSIVE FilterSeq(_, _)
FilterSeq(s, keep) ==
  IF s = <<>> THEN <<>>
  ELSE IF Head(s) \in keep THEN <<Head(s)>> \o FilterSeq(Tail(s), keep)
  ELSE FilterSeq(Tail(s), keep)

\* ------------------------------------------------- the advisory data domain
\* Package names and versions of the modelled lockfiles.
Names == {"a", "b"}
Versions == {"1"}
Pkgs == [name : Names, version : Versions]
Key(pkg) == <<pkg.name, pkg.version>>

\* Advisory identifiers; startsWith('CVE-') and startsWith('GHSA-') are
\* membership in CveIds and GhsaIds.
VulnIds == {"OSV-1", "GHSA-1"}
CveIds == {"CVE-1"}
GhsaIds == {"GHSA-1"}
StartsWithCve(id) == id \in CveIds
StartsWithGhsa(id) == id \in GhsaIds

\* The score strings of a severity[] entry and the database_specific labels
\* that occur in the modelled documents.
NoCvss == "no-cvss-entry"
ScoreStrings == {"9.0", "8.9", "3.9", "CVSS:3.1/AV:N/A:H"}
NoLabel == "no-label"
Labels == {"HIGH", "moderate", "n/a"}

NaN == -1

\* cvss.score.split('/').pop()
LastToken(score) ==
  IF score = "CVSS:3.1/AV:N/A:H" THEN "A:H" ELSE score

\* Number.parseFloat, in tenths; NaN when the token is not a number.
ParseFloat(token) ==
  CASE token = "9.0" -> 90
    [] token = "8.9" -> 89
    [] token = "3.9" -> 39
    [] OTHER -> NaN

\* label.toLowerCase().includes(word)
LabelIncludes(label, word) ==
  CASE label = "HIGH" -> word = "high"
    [] label = "moderate" -> word = "moderate"
    [] OTHER -> FALSE

\* A raw OSV document (batch result entry or detail document).
NoAliases == [present |-> FALSE, list |-> <<>>]
AliasLists == {NoAliases,
               [present |-> TRUE, list |-> <<>>],
               [present |-> TRUE, list |-> <<"CVE-1">>]}
RawVuln(id, cvss, label, aliases) ==
  [id |-> id, cvss |-> cvss, label |-> label, aliases |-> aliases]

\* ---------------------------------------------------- severity normalization
withSource(source, kind) ==
  IF source = "osv" /\ kind = "cvss" THEN "osv_cvss"
  ELSE IF source = "osv" /\ kind = "label" THEN "osv_label"
  ELSE IF source = "osv_detail" /\ kind = "cvss" THEN "osv_detail_cvss"
  ELSE "osv_detail_label"

Mapped(sev, src, reason) ==
  [severity |-> sev, severitySource |-> src, unknownReason |-> reason]

cvssToSeverity(value) ==
  IF value >= 90 THEN "critical"
  ELSE IF value >= 70 THEN "high"
  ELSE IF value >= 40 THEN "medium"
  ELSE "low"

mapSeverity(vuln, source) ==
  LET value == IF vuln.cvss = NoCvss THEN NaN ELSE ParseFloat(LastToken(vuln.cvss))
      label == vuln.label
      has(word) == label # NoLabel /\ LabelIncludes(label, word)
  IN IF vuln.cvss # NoCvss /\ value # NaN
     THEN Mapped(cvssToSeverity(value), withSource(source, "cvss"), Undefined)
     ELSE IF has("critical") THEN Mapped("critical", withSource(source, "label"), Undefined)
     ELSE IF has("high") THEN Mapped("high", withSource(source, "label"), Undefined)
     ELSE IF has("medium") \/ has("moderate")
          THEN Mapped("medium", withSource(source, "label"), Undefined)
     ELSE IF has("low") THEN Mapped("low", withSource(source, "label"), Undefined)
     ELSE Mapped("unknown", "unknown", "missing_score")

\* The fields of an OsvVulnerability that reports and claims read.
VulnFields == {"id", "severity", "severitySource", "unknownReason"}

normalizeVuln(vuln, source) ==
  LET mapped == mapSeverity(vuln, source)
  IN [id |-> vuln.id,
      severity |-> mapped.severity,
      severitySource |-> mapped.severitySource,
      unknownReason |-> mapped.unknownReason]

\* ------------------------------------------------------------ JSON on disk
\* JSON.stringify: a key whose value is undefined is not written.
Stringify(obj) ==
  [k \in {f \in DOMAIN obj : obj[f] # Undefined} |-> obj[k]]

\* JSON.parse, read through the OsvVulnerability type: a missing key reads
\* as undefined.
Parse(json) ==
  [k \in VulnFields |-> IF k \in DOMAIN json THEN json[k] ELSE Undefined]

StringifyList(vulns) == [i \in 1..Len(vulns) |-> Stringify(vulns[i])]
ParseList(data) == [i \in 1..Len(data) |-> Parse(data[i])]

\* A reader that derives the source of every cached record from its severity.
normalizeCachedVuln_Rederives(vuln) ==
  [vuln EXCEPT
     !.severitySource = IF vuln.severity = "unknown" THEN "unknown" ELSE "osv_label",
     !.unknownReason = IF vuln.severity = "unknown"
                       THEN (IF vuln.unknownReason # Undefined
                             THEN vuln.unknownReason ELSE "missing_score")
                       ELSE Undefined]

normalizeCachedVuln(vuln) ==
  IF vuln.severitySource # Undefined THEN vuln
  ELSE [vuln EXCEPT
          !.severitySource = IF vuln.severity = "unknown" THEN "unknown" ELSE "osv_label",
          !.unknownReason = IF vuln.severity = "unknown"
                            THEN (IF vuln.unknownReason # Undefined
                                  THEN vuln.unknownReason ELSE "missing_score")
                            ELSE Undefined]

\* ------------------------------------------------------ the cache directory
\* A cache file: whether it exists, its modification time and its content.
\* A batch file also remembers the in-memory list it was written from, which
\* is the list fetchBatch returned (a history field, never read by the code).
File(mtime, data) == [exists |-> TRUE, mtime |-> mtime, data |-> data]
BatchFile(mtime, data, vulns) ==
  [exists |-> TRUE, mtime |-> mtime, data |-> data, returned |-> vulns]
NoBatchFile == [exists |-> FALSE, mtime |-> 0, data |-> <<>>, returned |-> <<>>]
NoDoc == RawVuln("", NoCvss, NoLabel, NoAliases)
NoDetailFile == [exists |-> FALSE, mtime |-> 0, data |-> NoDoc]
NoNvdFile == [exists |-> FALSE, mtime |-> 0, data |-> 0]
NoGhsaFile == [exists |-> FALSE, mtime |-> 0,
               data |-> [severity |-> "unknown", severitySource |-> "unknown"]]

Keys == {Key(p) : p \in Pkgs}

EmptyFs ==
  [batch |-> [k \in Keys |-> NoBatchFile],
   details |-> [id \in VulnIds |-> NoDetailFile],
   nvd |-> [id \in CveIds |-> NoNvdFile],
   ghsa |-> [id \in GhsaIds |-> NoGhsaFile]]

\* A cache whose files never expire.
Expired_Never(file, t) == FALSE

\* Date.now() - fileStat.mtimeMs > TTL_MS
Expired(file, t) == t - file.mtime > TTL_MS

\* A read result: hit is FALSE for the code's null.
Miss(value) == [hit |-> FALSE, value |-> value]
Hit(value) == [hit |-> TRUE, value |-> value]

\* A read that does not look at refreshCache.
readCache_IgnoresRefresh(cfg, dir, pkg, t) ==
  LET file == dir.batch[Key(pkg)]
  IN IF ~file.exists THEN Miss(<<>>)
     ELSE IF Expired(file, t) THEN Miss(<<>>)
     ELSE LET data == ParseList(file.data)
          IN Hit([i \in 1..Len(data) |-> normalizeCachedVuln(data[i])])

readCache(cfg, dir, pkg, t) ==
  LET file == dir.batch[Key(pkg)]
  IN IF cfg.refreshCache THEN Miss(<<>>)
     ELSE IF ~file.exists THEN Miss(<<>>)
     ELSE IF Expired(file, t) THEN Miss(<<>>)
     ELSE LET data == ParseList(file.data)
          IN Hit([i \in 1..Len(data) |-> normalizeCachedVuln(data[i])])

writeCache(dir, pkg, vulns, t) ==
  [dir EXCEPT !.batch[Key(pkg)] = BatchFile(t, StringifyList(vulns), vulns)]

readDetailCache(cfg, dir, id, t) ==
  LET file == dir.details[id]
  IN IF cfg.refreshCache THEN Miss(NoDoc)
     ELSE IF ~file.exists THEN Miss(NoDoc)
     ELSE IF Expired(file, t) THEN Miss(NoDoc)
     ELSE Hit(file.data)

writeDetailCache(dir, id, vuln, t) ==
  [dir EXCEPT !.details[id] = File(t, vuln)]

readNvdCache(cfg, dir, cveId, t) ==
  LET file == dir.nvd[cveId]
  IN IF cfg.refreshCache THEN Miss(0)
     ELSE IF ~file.exists THEN Miss(0)
     ELSE IF Expired(file, t) THEN Miss(0)
     ELSE Hit(file.data)

\* A cache that stores another score than the one it was given.
writeNvdCache_Capped(dir, cveId, score, t) ==
  [dir EXCEPT !.nvd[cveId] = File(t, 100)]

writeNvdCache(dir, cveId, score, t) ==
  [dir EXCEPT !.nvd[cveId] = File(t, score)]

readGhsaCache(cfg, dir, ghsaId, t) ==
  LET file == dir.ghsa[ghsaId]
  IN IF cfg.refreshCache THEN Miss(NoGhsaFile.data)
     ELSE IF ~file.exists THEN Miss(NoGhsaFile.data)
     ELSE IF Expired(file, t) THEN Miss(NoGhsaFile.data)
     ELSE IF file.data.severity = "unknown" THEN Miss(NoGhsaFile.data)
     ELSE Hit(file.data)

writeGhsaCache(dir, ghsaId, severity, t) ==
  [dir EXCEPT !.ghsa[ghsaId] = File(t, severity)]

\* pruneExpiredCache: every file of the cache root and of its
\* sub-directories whose age exceeds the TTL is unlinked.
PruneNs(files, none, t) ==
  [k \in DOMAIN files |->
     IF files[k].exists /\ Expired(files[k], t) THEN none ELSE files[k]]

pruneExpiredCache(dir, t) ==
  [batch |-> PruneNs(dir.batch, NoBatchFile, t),
   details |-> PruneNs(dir.details, NoDetailFile, t),
   nvd |-> PruneNs(dir.nvd, NoNvdFile, t),
   ghsa |-> PruneNs(dir.ghsa, NoGhsaFile, t)]

\* ---------------------------------------------------------------- the disk
\* The writes that fail during one call: writeFile of the batch entries of
\* these packages, and mkdir or writeFile under details/, nvd/ and ghsa/.
\* A failed write throws and leaves the file as it was.
Disk(batch, details, nvd, ghsa) ==
  [batch |-> batch, details |-> details, nvd |-> nvd, ghsa |-> ghsa]
DiskOk == Disk({}, FALSE, FALSE, FALSE)

\* ------------------------------------------------------------- the network
\* What the endpoints answer during one call.  "throw" stands for a
\* rejected fetch, a timeout (abort) and, for the OSV endpoints, a non-2xx
\* status; "notok" is a non-2xx status of the NVD or GHSA endpoint.
Req(kind, id) == [kind |-> kind, id |-> id]


\* The outcome of a step of the fallback chain: the directory and the
\* requests so far, whether the step threw, whether it resolved a severity.
Step(dir, reqs, threw, resolved, res) ==
  [dir |-> dir, reqs |-> reqs, threw |-> threw, resolved |-> resolved, res |-> res]

Unresolved == Mapped("unknown", "unknown", Undefined)

\* The for-loop over the CVE aliases (readNvdCache, fetchNvdCvss,
\* writeNvdCache): the first alias with a score wins.
RECURSIVE NvdLoop(_, _, _, _, _, _)
NvdLoop(cves, cfg, dir, net, t, reqs) ==
  IF cves = <<>> THEN Step(dir, reqs, FALSE, FALSE, Unresolved)
  ELSE
    LET cveId == Head(cves)
        cached == readNvdCache(cfg, dir, cveId, t)
        reply == net.nvd[cveId]
        sent == Append(reqs, Req("nvd", cveId))
        found(score) == Mapped(cvssToSeverity(score), "alias_cvss", Undefined)
    IN IF cached.hit THEN Step(dir, reqs, FALSE, TRUE, found(cached.value))
       ELSE IF reply.status = "throw" THEN Step(dir, sent, TRUE, FALSE, Unresolved)
       ELSE IF reply.status = "score"
            THEN IF net.disk.nvd THEN Step(dir, sent, TRUE, FALSE, Unresolved)
                 ELSE Step(writeNvdCache(dir, cveId, reply.score, t), sent, FALSE,
                           TRUE, found(reply.score))
       ELSE NvdLoop(Tail(cves), cfg, dir, net, t, sent)

\* fetchGhsaSeverity: what the advisory answers, as a severity or null.
fetchGhsaSeverity(reply) ==
  IF reply.status = "cvss"
  THEN Hit([severity |-> cvssToSeverity(reply.score), severitySource |-> "ghsa_cvss"])
  ELSE IF reply.status = "label" /\ reply.label \in KnownSeverities
  THEN Hit([severity |-> reply.label, severitySource |-> "ghsa_label"])
  ELSE Miss(NoGhsaFile.data)

\* The for-loop over the GHSA ids (resolveGhsaSeverity).
RECURSIVE GhsaLoop(_, _, _, _, _, _)
GhsaLoop(ids, cfg, dir, net, t, reqs) ==
  IF ids = <<>> THEN Step(dir, reqs, FALSE, FALSE, Unresolved)
  ELSE
    LET ghsaId == Head(ids)
        cached == readGhsaCache(cfg, dir, ghsaId, t)
        reply == net.ghsa[ghsaId]
        sent == Append(reqs, Req("ghsa", ghsaId))
        fetched == fetchGhsaSeverity(reply)
        asMapped(v) == Mapped(v.severity, v.severitySource, Undefined)
    IN IF cached.hit THEN Step(dir, reqs, FALSE, TRUE, asMapped(cached.value))
       ELSE IF reply.status = "throw" THEN Step(dir, sent, TRUE, FALSE, Unresolved)
       ELSE IF fetched.hit
            THEN IF net.disk.ghsa THEN Step(dir, sent, TRUE, FALSE, Unresolved)
                 ELSE Step(writeGhsaCache(dir, ghsaId, fetched.value, t), sent,
                           FALSE, TRUE, asMapped(fetched.value))
       ELSE GhsaLoop(Tail(ids), cfg, dir, net, t, sent)

\* new Set(): the ids in insertion order, each once.
RECURSIVE Dedupe(_, _)
Dedupe(s, seen) ==
  IF s = <<>> THEN <<>>
  ELSE IF Head(s) \in seen THEN Dedupe(Tail(s), seen)
  ELSE <<Head(s)>> \o Dedupe(Tail(s), seen \cup {Head(s)})

LookupFailed == Mapped("unknown", "unknown", "lookup_failed")

\* The end of the worker once the GHSA ids were tried.
AfterGhsa(ghsa, mapped) ==
  IF ghsa.threw THEN Step(ghsa.dir, ghsa.reqs, TRUE, FALSE, LookupFailed)
  ELSE IF ghsa.resolved THEN ghsa
  ELSE Step(ghsa.dir, ghsa.reqs, FALSE, FALSE, mapped)

\* The worker once the CVE aliases were tried: the GHSA ids are next.
AfterNvd(nvd, ghsaIds, mapped, cfg, net, t) ==
  IF nvd.threw THEN Step(nvd.dir, nvd.reqs, TRUE, FALSE, LookupFailed)
  ELSE IF nvd.resolved THEN nvd
  ELSE AfterGhsa(GhsaLoop(ghsaIds, cfg, nvd.dir, net, t, nvd.reqs), mapped)

\* A worker that goes on to the aliases whatever the detail document says.
AfterDetail_NoStop(id, raw, allAliases, mapped, cfg, dir1, net, t, reqs0) ==
  AfterNvd(NvdLoop(FilterSeq(allAliases, CveIds), cfg, dir1, net, t, reqs0),
           Dedupe((IF StartsWithGhsa(id) THEN <<id>> ELSE <<>>)
                    \o FilterSeq(allAliases, GhsaIds), {}),
           mapped, cfg, net, t)

\* The worker once it holds the detail document raw (from the cache or
\* fetched and written to dir1): its own severity, else the CVE aliases.
AfterDetail(id, raw, allAliases, mapped, cfg, dir1, net, t, reqs0) ==
  IF mapped.severity # "unknown" THEN Step(dir1, reqs0, FALSE, TRUE, mapped)
  ELSE AfterNvd(NvdLoop(FilterSeq(allAliases, CveIds), cfg, dir1, net, t, reqs0),
                Dedupe((IF StartsWithGhsa(id) THEN <<id>> ELSE <<>>)
                         \o FilterSeq(allAliases, GhsaIds), {}),
                mapped, cfg, net, t)

\* The worker of enrichUnknownVulns for one unresolved vulnerability.
EnrichOne(id, aliases, cfg, dir, net, t) ==
  LET cachedDoc == readDetailCache(cfg, dir, id, t)
      reply == net.detail[id]
      withDoc(raw, dir1, reqs0) ==
        AfterDetail(id, raw,
                    IF raw.aliases.present THEN raw.aliases.list ELSE aliases,
                    mapSeverity(raw, "osv_detail"), cfg, dir1, net, t, reqs0)
  IN IF cachedDoc.hit THEN withDoc(cachedDoc.value, dir, <<>>)
     ELSE IF reply.status = "throw" \/ net.disk.details
          THEN Step(dir, <<Req("detail", id)>>, TRUE, FALSE, LookupFailed)
     ELSE withDoc(reply.doc, writeDetailCache(dir, id, reply.doc, t),
                  <<Req("detail", id)>>)

\* enrichUnknownVulns: one worker call per unresolved vulnerability.  The
\* workers of one call touch the files of different advisories, so their
\* effects on the directory compose in any order.
RECURSIVE enrichUnknownVulns(_, _, _, _, _)
RECURSIVE EnrichRest(_, _, _, _, _, _)
enrichUnknownVulns(unresolved, cfg, dir, net, t) ==
  IF unresolved = <<>> THEN [dir |-> dir, enriched |-> <<>>]
  ELSE EnrichRest(Head(unresolved),
                  EnrichOne(Head(unresolved).id, Head(unresolved).aliases,
                            cfg, dir, net, t),
                  Tail(unresolved), cfg, net, t)

\* The entry of one worker, followed by the entries of the later ones.
EnrichRest(item, one, later, cfg, net, t) ==
  LET rest == enrichUnknownVulns(later, cfg, one.dir, net, t)
  IN [dir |-> rest.dir,
      enriched |-> <<[id |-> item.id, res |-> one.res, reqs |-> one.reqs,
                      threw |-> one.threw]>> \o rest.enriched]


\* ----------------------------------------------------------- OsvClient
\* The client's configuration (constructor).
Cfg(offline, refreshCache, enableNetworkFallbacks) ==
  [offline |-> offline, refreshCache |-> refreshCache,
   enableNetworkFallbacks |-> enableNetworkFallbacks]

\* new OsvClient(cacheDir, offline: boolean, refreshCache = false)
CfgFromBoolean(offline, refreshCache) == Cfg(offline, refreshCache, TRUE)

\* A client that gives every package the vulnerabilities of the first result.
RawAt_First(results, i) ==
  IF 1 <= Len(results) /\ results[1].hasVulns THEN results[1].vulns ELSE <<>>

\* json.results[i]?.vulns ?? []
RawAt(results, i) ==
  IF i <= Len(results) /\ results[i].hasVulns THEN results[i].vulns ELSE <<>>

\* The last index of a package with this key in the fetch queue: Map.set
\* keeps the value of the last set.
LastIndex(packages, k) ==
  CHOOSE i \in 1..Len(packages) :
    /\ Key(packages[i]) = k
    /\ \A j \in (i + 1)..Len(packages) : Key(packages[j]) # k

\* All raw vulnerabilities of the response, in the order the loops of
\* fetchBatch visit them.
RECURSIVE AllRaw(_, _, _)
AllRaw(results, i, n) ==
  IF i > n THEN <<>> ELSE RawAt(results, i) \o AllRaw(results, i + 1, n)

\* unknownById as a list of {id, aliases}: a Map keeps the position of the
\* first set of a key and the value of the last.
RECURSIVE UnknownById(_, _)
UnknownById(raws, acc) ==
  IF raws = <<>> THEN acc
  ELSE
    LET raw == Head(raws)
        entry == [id |-> raw.id,
                  aliases |-> IF raw.aliases.present THEN raw.aliases.list ELSE <<>>]
        known == \E i \in 1..Len(acc) : acc[i].id = raw.id
        acc1 == IF normalizeVuln(raw, "osv").severity # "unknown" THEN acc
                ELSE IF known
                THEN [i \in 1..Len(acc) |-> IF acc[i].id = raw.id THEN entry ELSE acc[i]]
                ELSE Append(acc, entry)
    IN UnknownById(Tail(raws), acc1)

\* A merge that takes the severity of the enrichment and leaves the source.
Patch_SeverityOnly(v, enriched) ==
  IF v.severity # "unknown" THEN v
  ELSE IF ~\E i \in 1..Len(enriched) : enriched[i].id = v.id
  THEN [v EXCEPT !.unknownReason = "lookup_failed"]
  ELSE
    LET resolved == (enriched[CHOOSE i \in 1..Len(enriched) : enriched[i].id = v.id]).res
    IN IF resolved.severity = "unknown"
       THEN [v EXCEPT !.unknownReason = resolved.unknownReason]
       ELSE [v EXCEPT !.severity = resolved.severity, !.unknownReason = Undefined]

\* The merge of the enrichment into one vulnerability (the patched map).
Patch(v, enriched) ==
  IF v.severity # "unknown" THEN v
  ELSE IF ~\E i \in 1..Len(enriched) : enriched[i].id = v.id
  THEN [v EXCEPT !.unknownReason = "lookup_failed"]
  ELSE
    LET resolved == (enriched[CHOOSE i \in 1..Len(enriched) : enriched[i].id = v.id]).res
    IN IF resolved.severity = "unknown"
       THEN [v EXCEPT !.severity = resolved.severity,
                      !.severitySource = resolved.severitySource,
                      !.unknownReason = resolved.unknownReason]
       ELSE [v EXCEPT !.severity = resolved.severity,
                      !.severitySource = resolved.severitySource,
                      !.unknownReason = Undefined]

RECURSIVE WriteAll(_, _, _, _)
WriteAll(dir, packages, map, t) ==
  IF packages = <<>> THEN dir
  ELSE WriteAll(writeCache(dir, Head(packages), map[Key(Head(packages))], t),
                Tail(packages), map, t)

\* A client that enriches whatever the configuration says.
EnrichGuard_Always(cfg, unknown) == Len(unknown) > 0

\* Whether fetchBatch starts the enrichment pass.
EnrichGuard(cfg, unknown) == Len(unknown) > 0 /\ cfg.enableNetworkFallbacks

\* The packages whose entry the write loop of fetchBatch writes: those
\* before the first one whose writeFile throws.
RECURSIVE Written(_, _)
Written(packages, disk) ==
  IF packages = <<>> THEN <<>>
  ELSE IF Key(Head(packages)) \in disk.batch THEN <<>>
  ELSE <<Head(packages)>> \o Written(Tail(packages), disk)

\* The end of fetchBatch: the enrichment merged into the normalized map,
\* and one cache file written per queued package.  The write loop is inside
\* the try block: a writeFile that throws ends it in the catch, which
\* returns an empty map.
Merge(packages, map0, enriches, run, disk, t) ==
  LET map1 == IF enriches
              THEN [k \in DOMAIN map0 |->
                      [j \in 1..Len(map0[k]) |-> Patch(map0[k][j], run.enriched)]]
              ELSE map0
  IN IF Len(Written(packages, disk)) = Len(packages)
     THEN [ok |-> TRUE, map |-> map1,
           dir |-> WriteAll(run.dir, packages, map1, t),
           enrich |-> run.enriched]
     ELSE [ok |-> FALSE, map |-> <<>>,
           dir |-> WriteAll(run.dir, Written(packages, disk), map1, t),
           enrich |-> run.enriched]

\* A fetchBatch that records a failed request as "no vulnerabilities".
fetchBatch_CachesFailure(packages, cfg, dir, net, t) ==
  IF net.batch.status # "ok"
  THEN [ok |-> FALSE, map |-> <<>>,
        dir |-> WriteAll(dir, packages,
                         [k \in {Key(packages[i]) : i \in 1..Len(packages)} |-> <<>>], t),
        enrich |-> <<>>]
  ELSE
    LET results == net.batch.results
        n == Len(packages)
        keys == {Key(packages[i]) : i \in 1..n}
        normalized(i) == [j \in 1..Len(RawAt(results, i)) |->
                            normalizeVuln(RawAt(results, i)[j], "osv")]
        unknown == UnknownById(AllRaw(results, 1, n), <<>>)
    IN Merge(packages,
             [k \in keys |-> normalized(LastIndex(packages, k))],
             EnrichGuard(cfg, unknown),
             IF EnrichGuard(cfg, unknown)
             THEN enrichUnknownVulns(unknown, cfg, dir, net, t)
             ELSE [dir |-> dir, enriched |-> <<>>],
             net.disk, t)

\* fetchBatch: ok is FALSE when the catch block returned the empty map.
fetchBatch(packages, cfg, dir, net, t) ==
  IF net.batch.status # "ok"
  THEN [ok |-> FALSE, map |-> <<>>, dir |-> dir, enrich |-> <<>>]
  ELSE
    LET results == net.batch.results
        n == Len(packages)
        keys == {Key(packages[i]) : i \in 1..n}
        normalized(i) == [j \in 1..Len(RawAt(results, i)) |->
                            normalizeVuln(RawAt(results, i)[j], "osv")]
        unknown == UnknownById(AllRaw(results, 1, n), <<>>)
    IN Merge(packages,
             [k \in keys |-> normalized(LastIndex(packages, k))],
             EnrichGuard(cfg, unknown),
             IF EnrichGuard(cfg, unknown)
             THEN enrichUnknownVulns(unknown, cfg, dir, net, t)
             ELSE [dir |-> dir, enriched |-> <<>>],
             net.disk, t)

Result(source, vulns) == [source |-> source, vulnerabilities |-> vulns]

\* A client that queues every cache miss, offline or not.
Branch_IgnoresOffline(cfg, cached) ==
  IF cached.hit THEN "cache" ELSE "fetch"

\* The branch batchQuery takes for one package: answer from the cache,
\* answer unknown (offline), or queue for the batch request.
Branch(cfg, cached) ==
  IF cached.hit THEN "cache"
  ELSE IF cfg.offline THEN "unknown"
  ELSE "fetch"

\* Whether batchQuery prunes the cache directory first.
ShouldPrune(cfg) == ~cfg.offline

\* The packages batchQuery queues for the batch request, in order.
RECURSIVE ToFetch(_, _, _, _)
ToFetch(packages, cfg, dir, t) ==
  IF packages = <<>> THEN <<>>
  ELSE
    LET pkg == Head(packages)
        rest == ToFetch(Tail(packages), cfg, dir, t)
    IN IF Branch(cfg, readCache(cfg, dir, pkg, t)) = "fetch" THEN <<pkg>> \o rest
       ELSE rest

\* What the first loop of batchQuery records for a package it does not queue.
Classify(pkg, cfg, dir, t) ==
  LET cached == readCache(cfg, dir, pkg, t)
  IN IF Branch(cfg, cached) = "cache" THEN Result("cache", cached.value)
     ELSE Result("unknown", <<>>)

\* A client that reports a failed batch as "no vulnerabilities".
QueuedResult_Clean(fetched, k) ==
  IF fetched.ok THEN Result("osv", fetched.map[k])
  ELSE Result("osv", <<>>)

\* What batchQuery records for a queued package once fetchBatch returned:
\* the fetched list, or unknown when the key is not in the returned map.
QueuedResult(fetched, k) ==
  IF fetched.ok THEN Result("osv", fetched.map[k])
  ELSE Result("unknown", <<>>)

\* The end of batchQuery: the response map, the directory afterwards and
\* the requests that were sent.
Respond(packages, cfg, dir0, toFetch, fetched, t) ==
  LET queued == {Key(toFetch[i]) : i \in 1..Len(toFetch)}
      keys == {Key(packages[i]) : i \in 1..Len(packages)}
      pkgOf(k) == packages[CHOOSE i \in 1..Len(packages) : Key(packages[i]) = k]
  IN [response |->
        [k \in keys |->
           IF k \in queued THEN QueuedResult(fetched, k)
           ELSE Classify(pkgOf(k), cfg, dir0, t)],
      dir |-> fetched.dir,
      toFetch |-> toFetch,
      pruned |-> ShouldPrune(cfg),
      batchRequests |-> IF Len(toFetch) > 0 THEN 1 ELSE 0,
      enrich |-> fetched.enrich]

\* batchQuery once the queue is known: one fetchBatch when it is not empty.
FetchQueued(packages, cfg, dir0, toFetch, net, t) ==
  Respond(packages, cfg, dir0, toFetch,
          IF Len(toFetch) > 0
          THEN fetchBatch(toFetch, cfg, dir0, net, t)
          ELSE [ok |-> FALSE, map |-> <<>>, dir |-> dir0, enrich |-> <<>>],
          t)

\* batchQuery after the prune: the first loop over the packages.
AfterPrune(packages, cfg, dir0, net, t) ==
  FetchQueued(packages, cfg, dir0, ToFetch(packages, cfg, dir0, t), net, t)

batchQuery(packages, cfg, dir, net, t) ==
  AfterPrune(packages, cfg,
             IF ShouldPrune(cfg) THEN pruneExpiredCache(dir, t) ELSE dir, net, t)

\* ------------------------------------------------------- inputs of a call
\* The raw vulnerabilities the OSV batch endpoint answers with.
RawCritical == RawVuln("OSV-1", "9.0", NoLabel, NoAliases)
RawUnknown == RawVuln("GHSA-1", "CVSS:3.1/AV:N/A:H", "n/a",
                      [present |-> TRUE, list |-> <<"CVE-1">>])
RawVulns == {RawCritical, RawUnknown}

\* Lists without a repeated element.
DistinctSeqs(S, n) ==
  {s \in SeqsUpTo(S, n) : \A i, j \in 1..Len(s) : i # j => s[i] # s[j]}

\* One entry of results[]: without a vulns array (which reads like an empty
\* one), or with one vulnerability.
ResultEntries ==
  {[hasVulns |-> FALSE, vulns |-> <<>>]}
    \cup {[hasVulns |-> TRUE, vulns |-> <<v>>] : v \in RawVulns}

\* The answers of the batch endpoint to a queue of n packages: a failure,
\* or a result list that may be shorter than the queue.
BatchReplies(n) ==
  {[status |-> "throw", results |-> <<>>]}
    \cup {[status |-> "ok", results |-> r] : r \in SeqsUpTo(ResultEntries, n)}

\* The fallback endpoints.
DetailThrows == [status |-> "throw", doc |-> NoDoc]
DetailResolves == [status |-> "ok", doc |-> RawVuln("GHSA-1", NoCvss, "HIGH", NoAliases)]
DetailUnresolved == [status |-> "ok", doc |-> RawVuln("GHSA-1", NoCvss, NoLabel, NoAliases)]
NvdThrows == [status |-> "throw", score |-> 0]
NvdNull == [status |-> "null", score |-> 0]
NvdScore == [status |-> "score", score |-> 89]
GhsaThrows == [status |-> "throw", score |-> 0, label |-> ""]
GhsaNotOk == [status |-> "notok", score |-> 0, label |-> ""]
GhsaCvss == [status |-> "cvss", score |-> 39, label |-> "high"]
GhsaLabel == [status |-> "label", score |-> 0, label |-> "high"]

Net(b, d, v, g) ==
  [batch |-> b, detail |-> [id \in VulnIds |-> d],
   nvd |-> [id \in CveIds |-> v], ghsa |-> [id \in GhsaIds |-> g],
   disk |-> DiskOk]

NetDown == Net([status |-> "throw", results |-> <<>>], DetailThrows, NvdThrows, GhsaThrows)

\* The fallback endpoints of the client specification: all down, the detail
\* document resolves, or no step resolves.
Fallbacks ==
  {<<DetailThrows, NvdThrows, GhsaThrows>>,
   <<DetailResolves, NvdThrows, GhsaThrows>>,
   <<DetailUnresolved, NvdNull, GhsaNotOk>>}

\* Whether a batch reply can start the fallback chain.
HasUnknown(reply) ==
  \E i \in 1..Len(reply.results) :
    \E j \in 1..Len(reply.results[i].vulns) :
      normalizeVuln(reply.results[i].vulns[j], "osv").severity = "unknown"

\* The networks that differ for a call that queues n packages: the fallback
\* endpoints are only varied when the call can reach them.
Nets(n, cfg) ==
  IF n = 0 THEN {NetDown}
  ELSE UNION {
    IF cfg.enableNetworkFallbacks /\ HasUnknown(b)
    THEN {Net(b, f[1], f[2], f[3]) : f \in Fallbacks}
    ELSE {[NetDown EXCEPT !.batch = b]} : b \in BatchReplies(n)}

Cfgs == {Cfg(o, r, f) : <<o, r, f>> \in BOOLEAN \X BOOLEAN \X BOOLEAN}

\* The package lists of a call: the keys of a lockfile are distinct.
PackageLists == DistinctSeqs(Pkgs, MaxPkgs)

\* ---------------------------------------------------------------- the clock
\* The instants at which something happens: 0, one TTL later, and one
\* millisecond after that, and so on.
Instant(i) == ((i + 1) \div 2) * TTL_MS + (i \div 2)
Instants == {Instant(i) : i \in 0..MaxClock}

\* ------------------------------------------------------------- evidence
\* The source files of a project, by relative path in sorted order, and the
\* module specifiers each of them imports.
SourceFiles == <<"src/a.ts", "src/b.ts">>
Specifiers == {"a", "a/sub", "b", "./b", "/b"}
Null == "null"

normalizePackageName(specifier) ==
  CASE specifier \in {"./b", "/b"} -> Null
    [] specifier = "a/sub" -> "a"
    [] OTHER -> specifier

Project(files, specifiers) == [files |-> files, specifiers |-> specifiers]

\* collectEvidence: every matched file is read; byPackage holds, per package
\* name, the sorted relative paths of the files that import it.
collectEvidence(project) ==
  LET importers(name) ==
        {f \in Range(project.files) :
           \E sp \in project.specifiers[f] : normalizePackageName(sp) = name}
  IN [scannedFiles |-> Len(project.files),
      byPackage |-> [name \in Names |-> FilterSeq(project.files, importers(name))],
      read |-> Range(project.files)]

\* The evidence index of a run: the scan is skipped when evidenceMode is none.
EvidenceFor(options, project) ==
  IF options.evidenceMode = "none"
  THEN [scannedFiles |-> 0, byPackage |-> [name \in Names |-> <<>>], read |-> {}]
  ELSE collectEvidence(project)

\* ----------------------------------------------------------------- sorting
\* The UTF-16 code units of the strings that occur in a sort key.
\* The library functions are also called with a name that extends another
\* name by a hyphen, and with a second version.
LibNames == Names \cup {"a-b"}
LibVersions == Versions \cup {"2"}

CodeUnits ==
  [str \in LibNames \cup LibVersions \cup VulnIds |->
     CASE str = "a" -> <<97>>
       [] str = "b" -> <<98>>
       [] str = "a-b" -> <<97, 45, 98>>
       [] str = "1" -> <<49>>
       [] str = "2" -> <<50>>
       [] str = "OSV-1" -> <<79, 83, 86, 45, 49>>
       [] str = "GHSA-1" -> <<71, 72, 83, 65, 45, 49>>]
Colon == <<58>>
Comma == <<44>>
DigitZero == 48

\* a < b on strings: by code unit, a proper prefix first.
RECURSIVE StrLess(_, _)
StrLess(a, b) ==
  IF b = <<>> THEN FALSE
  ELSE IF a = <<>> THEN TRUE
  ELSE IF Head(a) # Head(b) THEN Head(a) < Head(b)
  ELSE StrLess(Tail(a), Tail(b))

\* ids.join(',')
RECURSIVE Join(_)
Join(ids) ==
  IF ids = <<>> THEN <<>>
  ELSE IF Len(ids) = 1 THEN CodeUnits[ids[1]]
  ELSE CodeUnits[ids[1]] \o Comma \o Join(Tail(ids))

sevRank == [s \in Severities |->
              CASE s = "critical" -> 5 [] s = "high" -> 4 [] s = "medium" -> 3
                [] s = "low" -> 2 [] s = "unknown" -> 1]

\* The key of sortFindings: `${inv}:${packageName}:${version}:${ids}`.
SortKey(f) ==
  <<DigitZero + (9 - sevRank[f.severity])>> \o Colon \o CodeUnits[f.packageName]
    \o Colon \o CodeUnits[f.version] \o Colon
    \o Join([i \in 1..Len(f.vulnerabilities) |-> f.vulnerabilities[i].id])

\* A sort that breaks ties by the later index first.
stableSortBy_Unstable(items, key) ==
  LET n == Len(items)
      before(i, j) == \/ StrLess(key[items[i]], key[items[j]])
                      \/ key[items[i]] = key[items[j]] /\ i > j
  IN [p \in 1..n |->
        items[CHOOSE i \in 1..n : Cardinality({j \in 1..n : before(j, i)}) = p - 1]]

\* stableSortBy: ascending by key, ties by the original index.  The
\* comparator is a total order, so the sorted array is determined.  The key
\* function is given by its values on the items.
stableSortBy(items, key) ==
  LET n == Len(items)
      before(i, j) == \/ StrLess(key[items[i]], key[items[j]])
                      \/ key[items[i]] = key[items[j]] /\ i < j
  IN [p \in 1..n |->
        items[CHOOSE i \in 1..n : Cardinality({j \in 1..n : before(j, i)}) = p - 1]]

sortFindings(findings) ==
  stableSortBy(findings, [f \in Range(findings) |-> SortKey(f)])

\* ------------------------------------------------------------------ runScan
ScanOptions(failOn, offline, unknownAs, refreshCache, enableNetworkFallbacks, evidenceMode) ==
  [failOn |-> failOn, offline |-> offline, unknownAs |-> unknownAs,
   refreshCache |-> refreshCache, enableNetworkFallbacks |-> enableNetworkFallbacks,
   evidenceMode |-> evidenceMode]

\* The client runScan constructs from its options.
ClientConfig(options) ==
  Cfg(options.offline, options.refreshCache, options.enableNetworkFallbacks)

determineConfidence_Always(direct, hasEvidence) ==
  IF direct THEN "high" ELSE "low"

determineConfidence(direct, hasEvidence) ==
  IF direct /\ hasEvidence THEN "high"
  ELSE IF direct /\ ~hasEvidence THEN "medium"
  ELSE IF ~direct /\ hasEvidence THEN "low"
  ELSE "unknown"

\* A grading that ignores the vulnerabilities.
highestSeverity_Default(vulnerabilities) ==
  Mapped("unknown", "unknown", "missing_score")

\* A sort that places a vulnerability before the ones of its own rank.
RECURSIVE InsertBySeverity_Before(_, _)
InsertBySeverity_Before(sorted, v) ==
  IF sorted = <<>> THEN <<v>>
  ELSE IF sevRank[Head(sorted).severity] > sevRank[v.severity]
  THEN <<Head(sorted)>> \o InsertBySeverity_Before(Tail(sorted), v)
  ELSE <<v>> \o sorted

\* [...vulnerabilities].sort((a, b) => rank[b.severity] - rank[a.severity]):
\* Array.prototype.sort is stable, so a vulnerability is placed behind the
\* ones before it in the list that rank at least as high.
RECURSIVE InsertBySeverity(_, _)
InsertBySeverity(sorted, v) ==
  IF sorted = <<>> THEN <<v>>
  ELSE IF sevRank[Head(sorted).severity] >= sevRank[v.severity]
  THEN <<Head(sorted)>> \o InsertBySeverity(Tail(sorted), v)
  ELSE <<v>> \o sorted

RECURSIVE SortBySeverity(_, _)
SortBySeverity(vulnerabilities, sorted) ==
  IF vulnerabilities = <<>> THEN sorted
  ELSE SortBySeverity(Tail(vulnerabilities),
                      InsertBySeverity(sorted, Head(vulnerabilities)))

\* The grading a vulnerability gives to its finding.
GradeOf(v) == Mapped(v.severity, v.severitySource, v.unknownReason)

\* highestSeverity: sorted[0], or the missing-score default of an empty list.
highestSeverity(vulnerabilities) ==
  IF vulnerabilities = <<>> THEN Mapped("unknown", "unknown", "missing_score")
  ELSE GradeOf(Head(SortBySeverity(vulnerabilities, <<>>)))

Finding(dep, sev, confidence, evidence, vulns, source) ==
  [packageName |-> dep.name, version |-> dep.version, direct |-> dep.direct,
   severity |-> sev.severity, severitySource |-> sev.severitySource,
   unknownReason |-> sev.unknownReason, confidence |-> confidence,
   evidence |-> evidence, vulnerabilities |-> vulns, source |-> source]

\* An unknown finding that is graded like a finding with vulnerabilities.
UnknownFinding_Graded(dep, evidenceFiles) ==
  Finding(dep, Mapped("unknown", "unknown", "missing_score"),
          determineConfidence(dep.direct, Len(evidenceFiles) > 0),
          evidenceFiles, <<>>, "unknown")

\* The finding of a dependency whose lookup result has source unknown.
UnknownFinding(dep, evidenceFiles) ==
  Finding(dep, Mapped("unknown", "unknown", "lookup_failed"), "unknown",
          evidenceFiles, <<>>, "unknown")

\* A finding that defaults the reason of its grading to missing_score.
VulnFinding_DefaultReason(dep, result, evidenceFiles) ==
  Finding(dep,
          [highestSeverity(result.vulnerabilities) EXCEPT
             !.unknownReason = IF @ = Undefined THEN "missing_score" ELSE @],
          determineConfidence(dep.direct, Len(evidenceFiles) > 0),
          evidenceFiles, result.vulnerabilities, result.source)

\* The finding of a dependency with at least one vulnerability.
VulnFinding(dep, result, evidenceFiles) ==
  Finding(dep, highestSeverity(result.vulnerabilities),
          determineConfidence(dep.direct, Len(evidenceFiles) > 0),
          evidenceFiles, result.vulnerabilities, result.source)

\* A loop that also reports the dependencies found clean.
RECURSIVE Findings_KeepsClean(_, _, _)
Findings_KeepsClean(deps, osvResults, evidence) ==
  IF deps = <<>> THEN <<>>
  ELSE
    LET dep == Head(deps)
        rest == Findings_KeepsClean(Tail(deps), osvResults, evidence)
        evidenceFiles == evidence.byPackage[dep.name]
    IN IF Key(dep) \notin DOMAIN osvResults THEN rest
       ELSE IF osvResults[Key(dep)].source = "unknown"
            THEN <<UnknownFinding(dep, evidenceFiles)>> \o rest
       ELSE <<VulnFinding(dep, osvResults[Key(dep)], evidenceFiles)>> \o rest

\* The loop of runScan over parsed.dependencies.
RECURSIVE Findings(_, _, _)
Findings(deps, osvResults, evidence) ==
  IF deps = <<>> THEN <<>>
  ELSE
    LET dep == Head(deps)
        rest == Findings(Tail(deps), osvResults, evidence)
        evidenceFiles == evidence.byPackage[dep.name]
    IN IF Key(dep) \notin DOMAIN osvResults THEN rest
       ELSE IF osvResults[Key(dep)].source = "unknown"
            THEN <<UnknownFinding(dep, evidenceFiles)>> \o rest
       ELSE IF Len(osvResults[Key(dep)].vulnerabilities) = 0 THEN rest
       ELSE <<VulnFinding(dep, osvResults[Key(dep)], evidenceFiles)>> \o rest

\* The unknownAs policy: a finding of severity unknown takes the policy's
\* severity and the source policy_override, and keeps its unknownReason.
ApplyUnknownAs(f, unknownAs) ==
  IF f.severity = "unknown" /\ unknownAs # "unknown"
  THEN [f EXCEPT !.severity = unknownAs, !.severitySource = "policy_override"]
  ELSE f

countBySeverity_KnownOnly(findings) ==
  [s \in Severities |->
     IF s = "unknown" THEN 0
     ELSE Cardinality({i \in 1..Len(findings) : findings[i].severity = s})]

countBySeverity(findings) ==
  [s \in Severities |->
     Cardinality({i \in 1..Len(findings) : findings[i].severity = s})]

countByConfidence(findings) ==
  [c \in Confidences |->
     Cardinality({i \in 1..Len(findings) : findings[i].confidence = c})]

\* { name, version } of every dependency.
Packages(deps) ==
  [i \in 1..Len(deps) |-> [name |-> deps[i].name, version |-> deps[i].version]]

\* The end of runScan: the report of the sorted findings.
Report(options, deps, evidence, packages, cfg, out, sorted) ==
  [report |->
     [failOn |-> options.failOn,
      summary |-> [dependencyCount |-> Len(deps),
                   scannedFiles |-> evidence.scannedFiles,
                   findingsCount |-> Len(sorted),
                   bySeverity |-> countBySeverity(sorted),
                   byConfidence |-> countByConfidence(sorted)],
      findings |-> sorted],
   packages |-> packages, cfg |-> cfg, out |-> out, read |-> evidence.read]

\* The findings of the lookup results, with the unknownAs policy applied.
PolicyFindings(deps, osvResults, evidence, unknownAs) ==
  LET findings == Findings(deps, osvResults, evidence)
  IN [i \in 1..Len(findings) |-> ApplyUnknownAs(findings[i], unknownAs)]

\* runScan once the evidence and the lookup results are there.
Synthesize(options, deps, evidence, packages, cfg, out) ==
  Report(options, deps, evidence, packages, cfg, out,
         sortFindings(PolicyFindings(deps, out.response, evidence,
                                     options.unknownAs)))

\* runScan: the report, the client call it made and the files it read.
runScan(options, deps, project, dir, net, t) ==
  Synthesize(options, deps, EvidenceFor(options, project), Packages(deps),
             ClientConfig(options),
             batchQuery(Packages(deps), ClientConfig(options), dir, net, t))

\* The report of a project without dependencies.
NoReport ==
  [failOn |-> "none",
   summary |-> [dependencyCount |-> 0, scannedFiles |-> 0, findingsCount |-> 0,
                bySeverity |-> [s \in Severities |-> 0],
                byConfidence |-> [c \in Confidences |-> 0]],
   findings |-> <<>>]

\* ------------------------------------------------------- inputs of a scan
\* parsed.dependencies: the parsers key their map by name@version, so the
\* keys are distinct; the order is the order of the lockfile.
Deps == [name : Names, version : Versions, direct : BOOLEAN]
DepLists ==
  {s \in SeqsUpTo(Deps, MaxPkgs) :
     \A i, j \in 1..Len(s) : i # j => Key(s[i]) # Key(s[j])}

\* A project without source files, and one whose files import package a
\* (and a relative module) but not package b.
EmptyProject == Project(<<>>, [f \in {} |-> {}])
ImportingProject ==
  Project(SourceFiles, [f \in Range(SourceFiles) |->
                          IF f = "src/a.ts" THEN {"a/sub", "./b"} ELSE {"a"}])
Projects == {EmptyProject, ImportingProject}

UnknownAsPolicies == {"unknown", "critical"}

ScanOptionsSet ==
  {ScanOptions("high", o, u, r, f, e) :
     <<o, u, r, f, e>> \in
       BOOLEAN \X UnknownAsPolicies \X BOOLEAN \X BOOLEAN \X {"none", "imports"}}

\* ------------------------------------------------------- the scan command
SEVERITY_RANK ==
  [s \in FailOns |->
     CASE s = "critical" -> 5 [] s = "high" -> 4 [] s = "medium" -> 3
       [] s = "low" -> 2 [] s = "unknown" -> 1 [] s = "none" -> 0]

\* A threshold that only a strictly higher severity meets.
shouldFail_Above(failOn, findingSeverity) ==
  SEVERITY_RANK[findingSeverity] > SEVERITY_RANK[failOn]

\* A key that SEVERITY_RANK does not have reads as undefined, and >= with
\* undefined is false.
shouldFail(failOn, findingSeverity) ==
  /\ findingSeverity \in DOMAIN SEVERITY_RANK
  /\ failOn \in DOMAIN SEVERITY_RANK
  /\ SEVERITY_RANK[findingSeverity] >= SEVERITY_RANK[failOn]

\* The options of the scan command.  A flag the command line does not give
\* is Undefined; boolean flags without a default are "true" or "false".
Argv(privacy, online, offline, telemetry, updateDb, failOn, failOnUnknown, unknownAs, format, findingsJson) ==
  [privacy |-> privacy, online |-> online, offline |-> offline,
   telemetry |-> telemetry, updateDb |-> updateDb, failOn |-> failOn,
   failOnUnknown |-> failOnUnknown, unknownAs |-> unknownAs, format |-> format,
   findingsJson |-> findingsJson, fallbackCalls |-> Undefined,
   evidence |-> Undefined, refreshCache |-> FALSE]

Preset(privacy) ==
  IF privacy = "strict"
  THEN [offline |-> TRUE, enableNetworkFallbacks |-> FALSE, evidenceMode |-> "none",
        telemetry |-> "off"]
  ELSE [offline |-> TRUE, enableNetworkFallbacks |-> TRUE, evidenceMode |-> "imports",
        telemetry |-> "off"]

Rejected == [ok |-> FALSE]

\* Settings that take the offline flag as given.
resolveScanSettings_AsGiven(input) ==
  LET preset == Preset(input.privacy)
  IN [ok |-> TRUE,
      offline |-> IF input.offline # Undefined THEN input.offline = "true"
                  ELSE ~input.online,
      enableNetworkFallbacks |-> preset.enableNetworkFallbacks,
      evidenceMode |-> preset.evidenceMode]

\* resolveScanSettings: ok is FALSE when it throws.
resolveScanSettings(input) ==
  LET preset == Preset(input.privacy)
      offline == IF input.offline # Undefined THEN input.offline = "true"
                 ELSE preset.offline
      telemetry == IF input.telemetry # Undefined THEN input.telemetry
                   ELSE preset.telemetry
  IN IF input.online THEN Rejected
     ELSE IF ~offline THEN Rejected
     ELSE IF telemetry = "on" /\ input.privacy = "strict" THEN Rejected
     ELSE [ok |-> TRUE,
           offline |-> offline,
           enableNetworkFallbacks |->
             IF input.fallbackCalls # Undefined THEN input.fallbackCalls = "true"
             ELSE preset.enableNetworkFallbacks,
           evidenceMode |->
             IF input.evidence # Undefined THEN input.evidence
             ELSE preset.evidenceMode]

\* db update: an online lookup of the lockfile's dependencies that fills
\* the cache directory.
updateAdvisoryDb(options, deps, dir, net, t) ==
  batchQuery(Packages(deps),
             Cfg(FALSE, options.refreshCache, options.enableNetworkFallbacks),
             dir, net, t)

\* The injected operations of the command that can throw, in the order the
\* handler reaches them.
Faults ==
  {"none", "mkdir", "updateAdvisoryDb", "runScan",
   "report.json", "report.md", "report.sarif", "findings.json"}

\* The files the handler writes, in order.
ReportFiles == <<"report.json", "report.md", "report.sarif", "findings.json">>

Wanted(argv, file) ==
  CASE file = "report.json" -> argv.format \in {"json", "both"}
    [] file = "report.md" -> argv.format \in {"md", "both"}
    [] file = "report.sarif" -> argv.format = "sarif"
    [] file = "findings.json" -> argv.findingsJson

\* The writes of the handler up to the one that throws.
RECURSIVE WriteReports(_, _, _)
WriteReports(files, argv, fault) ==
  IF files = <<>> THEN [written |-> {}, threw |-> FALSE]
  ELSE IF ~Wanted(argv, Head(files)) THEN WriteReports(Tail(files), argv, fault)
  ELSE IF fault = Head(files) THEN [written |-> {}, threw |-> TRUE]
  ELSE LET rest == WriteReports(Tail(files), argv, fault)
       IN [written |-> {Head(files)} \cup rest.written, threw |-> rest.threw]

Outcome(exitCode, stderr, calledUpdate, calledScan, scanOptions, report, written, dir) ==
  [exitCode |-> exitCode, stderr |-> stderr, calledUpdate |-> calledUpdate,
   calledScan |-> calledScan, scanOptions |-> scanOptions, report |-> report,
   written |-> written, dir |-> dir]

NoOptions == ScanOptions("none", TRUE, "unknown", FALSE, FALSE, "none")

\* The catch block: the message goes to stderr, the exit code is 2.
Failed(calledUpdate, calledScan, options, report, written, dir) ==
  Outcome(2, TRUE, calledUpdate, calledScan, options, report, written, dir)

\* The handler once runScan returned: the writes, the thresholds, the code.
AfterScan(argv, fault, options, ran) ==
  LET report == ran.report
      writes == WriteReports(ReportFiles, argv, fault)
      thresholdHit ==
        /\ argv.failOn # "none"
        /\ \E i \in 1..Len(report.findings) :
             shouldFail(argv.failOn, report.findings[i].severity)
      unknownHit ==
        /\ argv.failOnUnknown
        /\ \E i \in 1..Len(report.findings) :
             \/ report.findings[i].severity = "unknown"
             \/ report.findings[i].unknownReason # Undefined
  IN IF writes.threw
     THEN Failed(argv.updateDb, TRUE, options, report, writes.written, ran.out.dir)
     ELSE Outcome(IF thresholdHit \/ unknownHit THEN 1 ELSE 0, FALSE,
                  argv.updateDb, TRUE, options, report, writes.written,
                  ran.out.dir)

\* The handler once the optional db update is done: the scan.
AfterUpdate(argv, fault, deps, project, dir1, scanNet, t, options) ==
  IF fault = "runScan"
  THEN Failed(argv.updateDb, TRUE, options, NoReport, {}, dir1)
  ELSE AfterScan(argv, fault, options,
                 runScan(options, deps, project, dir1, scanNet, t))

\* The handler once the settings are resolved.
WithSettings(argv, fault, deps, project, dir, updateNet, scanNet, t, settings) ==
  IF ~settings.ok THEN Failed(FALSE, FALSE, NoOptions, NoReport, {}, dir)
  ELSE IF fault = "mkdir" THEN Failed(FALSE, FALSE, NoOptions, NoReport, {}, dir)
  ELSE IF argv.updateDb /\ fault = "updateAdvisoryDb"
       THEN Failed(TRUE, FALSE, NoOptions, NoReport, {}, dir)
  ELSE AfterUpdate(argv, fault, deps, project,
                   IF argv.updateDb
                   THEN updateAdvisoryDb(
                          [refreshCache |-> argv.refreshCache,
                           enableNetworkFallbacks |-> settings.enableNetworkFallbacks],
                          deps, dir, updateNet, t).dir
                   ELSE dir,
                   scanNet, t,
                   ScanOptions(argv.failOn, settings.offline, argv.unknownAs,
                               argv.refreshCache, settings.enableNetworkFallbacks,
                               settings.evidenceMode))

\* The handler of the scan command.
scanCommand(argv, fault, deps, project, dir, updateNet, scanNet, t) ==
  WithSettings(argv, fault, deps, project, dir, updateNet, scanNet, t,
               resolveScanSettings([privacy |-> argv.privacy, online |-> argv.online,
                                    offline |-> argv.offline,
                                    fallbackCalls |-> argv.fallbackCalls,
                                    evidence |-> argv.evidence,
                                    telemetry |-> argv.telemetry]))

\* ---------------------------------------------------- inputs of a command
\* The command lines of the model depart from a base command line in one
\* group of flags: the mode flags, the threshold flags, or the output flags
\* (with an operation that fails).
TriState == {Undefined, "true", "false"}
FailOnChoices == {"critical", "high", "medium", "low", "none"}
Formats == {"json", "md", "sarif", "both"}

ModeArgvs ==
  {Argv(p, on, off, tel, upd, "high", FALSE, "unknown", "both", FALSE) :
     <<p, on, off, tel, upd>> \in
       {"strict", "standard"} \X BOOLEAN \X TriState \X {Undefined, "off", "on"}
         \X BOOLEAN}

ThresholdArgvs ==
  {Argv(p, FALSE, Undefined, Undefined, FALSE, failOn, fou, u, "json", FALSE) :
     <<p, failOn, fou, u>> \in
       {"strict", "standard"} \X FailOnChoices \X BOOLEAN \X UnknownAsPolicies}

OutputArgvs ==
  {Argv("strict", FALSE, Undefined, Undefined, upd, "high", fou, "unknown", fmt, fj) :
     <<upd, fou, fmt, fj>> \in BOOLEAN \X BOOLEAN \X Formats \X BOOLEAN}

CommandLines ==
  ((ModeArgvs \cup ThresholdArgvs) \X {"none"}) \cup (OutputArgvs \X Faults)

\* The lockfiles of the command model: every dependency is direct.
DirectDepLists == {s \in DepLists : \A i \in 1..Len(s) : s[i].direct}

\* ---------------------------------------------------- mapWithConcurrency
\* The enrichment pass step by step.  A worker is one run() closure; it
\* holds the index it took and stands at one await of the worker function
\* of enrichUnknownVulns.  Between two awaits a closure runs without
\* interruption: the test of the while loop, `index = next` and `next += 1`
\* happen in one step.  A read of a cache file that races a writeFile sees
\* the old file, the new file or a partial one; a partial file fails to
\* parse and reads as a miss, like the file before the write.

\* Math.max(1, Math.min(concurrency, items.length)) with every item its
\* own worker.
PoolSize_PerItem(concurrency, n) == IF n > 1 THEN n ELSE 1

\* Math.max(1, Math.min(concurrency, items.length))
PoolSize(concurrency, n) ==
  IF n < 1 \/ concurrency < 1 THEN 1
  ELSE IF concurrency < n THEN concurrency ELSE n

\* The ids of the unresolved vulnerabilities of a long list.
ItemIds ==
  <<"OSV-1", "OSV-2", "OSV-3", "OSV-4", "OSV-5", "OSV-6", "OSV-7", "OSV-8",
    "OSV-9">>
PoolIds == Range(ItemIds) \cup VulnIds

\* The cache directory and the endpoints of an enrichment pass.
PoolDir(nvd, ghsa) ==
  [details |-> [id \in PoolIds |-> NoDetailFile],
   nvd |-> [id \in CveIds |-> nvd], ghsa |-> [id \in GhsaIds |-> ghsa]]
PoolNet(d, v, g) ==
  [detail |-> [id \in PoolIds |-> d], nvd |-> [id \in CveIds |-> v],
   ghsa |-> [id \in GhsaIds |-> g], disk |-> DiskOk]

\* A run() closure that returned, and one that took index idx and called
\* the worker function, which runs up to its first await (readDetailCache).
DoneWorker ==
  [st |-> "done", idx |-> 0, pc |-> "return", raw |-> NoDoc,
   mapped |-> Unresolved, cves |-> <<>>, ghsas |-> <<>>, score |-> 0,
   sev |-> NoGhsaFile.data]
Started(idx) == [DoneWorker EXCEPT !.st = "busy", !.idx = idx, !.pc = "readDetail"]

NoEntry == [set |-> FALSE, id |-> "", res |-> Unresolved]
NoPool ==
  [op |-> "none", cfg |-> Cfg(TRUE, FALSE, FALSE),
   net |-> PoolNet(DetailThrows, NvdThrows, GhsaThrows), items |-> <<>>,
   next |-> 0, taken |-> <<>>, workers |-> <<>>, out |-> <<>>,
   dir0 |-> PoolDir(NoNvdFile, NoGhsaFile), dir |-> PoolDir(NoNvdFile, NoGhsaFile)]

\* mapWithConcurrency up to `await Promise.all(workers)`: Array.from calls
\* run() once per worker, and each call takes the next index before it
\* reaches its first await.
StartPool(items, cfg, dir, net) ==
  [op |-> "enrich", cfg |-> cfg, net |-> net, items |-> items,
   next |-> IF Len(items) = 0 THEN 0 ELSE PoolSize(ENRICH_CONCURRENCY, Len(items)),
   taken |-> IF Len(items) = 0 THEN <<>>
             ELSE [i \in 1..PoolSize(ENRICH_CONCURRENCY, Len(items)) |-> i],
   workers |-> [w \in 1..PoolSize(ENRICH_CONCURRENCY, Len(items)) |->
                  IF Len(items) = 0 THEN DoneWorker ELSE Started(w)],
   out |-> [i \in 1..Len(items) |-> NoEntry],
   dir0 |-> dir, dir |-> dir]

\* A closure that stores its result at the shared counter instead of at
\* the index it took.
Finish_SharedIndex(p, w, res) ==
  LET i == IF p.next < Len(p.items) THEN p.next + 1 ELSE p.next
      out1 == [p.out EXCEPT ![i] = [set |-> TRUE, id |-> p.items[p.workers[w].idx].id,
                                    res |-> res]]
  IN IF p.next < Len(p.items)
     THEN [p EXCEPT !.out = out1, !.next = p.next + 1,
                    !.taken = Append(p.taken, p.next + 1),
                    !.workers[w] = Started(p.next + 1)]
     ELSE [p EXCEPT !.out = out1, !.workers[w] = DoneWorker]

\* The worker function returned [id, res]: `out[index] = ...`, then the
\* while loop takes the next index or the closure returns.
Finish(p, w, res) ==
  LET i == p.workers[w].idx
      out1 == [p.out EXCEPT ![i] = [set |-> TRUE, id |-> p.items[i].id, res |-> res]]
  IN IF p.next < Len(p.items)
     THEN [p EXCEPT !.out = out1, !.next = p.next + 1,
                    !.taken = Append(p.taken, p.next + 1),
                    !.workers[w] = Started(p.next + 1)]
     ELSE [p EXCEPT !.out = out1, !.workers[w] = DoneWorker]

SetWorker(p, w, wk) == [p EXCEPT !.workers[w] = wk]

\* The GHSA ids are next: resolveGhsaSeverity of the first, or the return
\* of the document's own mapping when none is left.
EnterGhsa(p, w, wk) ==
  IF wk.ghsas # <<>> THEN SetWorker(p, w, [wk EXCEPT !.pc = "readGhsa"])
  ELSE Finish(p, w, wk.mapped)

\* The CVE aliases are next.
EnterNvd(p, w, wk) ==
  IF wk.cves # <<>> THEN SetWorker(p, w, [wk EXCEPT !.pc = "readNvd"])
  ELSE EnterGhsa(p, w, wk)

\* The worker holds the detail document.
WithDoc(p, w, raw) ==
  LET item == p.items[p.workers[w].idx]
      mapped == mapSeverity(raw, "osv_detail")
      all == IF raw.aliases.present THEN raw.aliases.list ELSE item.aliases
  IN IF mapped.severity # "unknown" THEN Finish(p, w, mapped)
     ELSE EnterNvd(p, w,
                   [p.workers[w] EXCEPT
                      !.raw = raw, !.mapped = mapped,
                      !.cves = FilterSeq(all, CveIds),
                      !.ghsas = Dedupe((IF StartsWithGhsa(item.id) THEN <<item.id>>
                                        ELSE <<>>) \o FilterSeq(all, GhsaIds), {})])

FoundScore(score) == Mapped(cvssToSeverity(score), "alias_cvss", Undefined)
FoundSeverity(v) == Mapped(v.severity, v.severitySource, Undefined)

\* The continuation of worker w after the await it stands at.
PoolStep(p, w, t) ==
  LET wk == p.workers[w]
      id == p.items[wk.idx].id
  IN CASE wk.pc = "readDetail" ->
            IF readDetailCache(p.cfg, p.dir, id, t).hit
            THEN WithDoc(p, w, readDetailCache(p.cfg, p.dir, id, t).value)
            ELSE SetWorker(p, w, [wk EXCEPT !.pc = "fetchDetail"])
       [] wk.pc = "fetchDetail" ->
            IF p.net.detail[id].status = "throw" THEN Finish(p, w, LookupFailed)
            ELSE SetWorker(p, w, [wk EXCEPT !.pc = "writeDetail",
                                            !.raw = p.net.detail[id].doc])
       [] wk.pc = "writeDetail" ->
            WithDoc([p EXCEPT !.dir = writeDetailCache(p.dir, id, wk.raw, t)], w, wk.raw)
       [] wk.pc = "readNvd" ->
            IF readNvdCache(p.cfg, p.dir, Head(wk.cves), t).hit
            THEN Finish(p, w, FoundScore(readNvdCache(p.cfg, p.dir, Head(wk.cves), t).value))
            ELSE SetWorker(p, w, [wk EXCEPT !.pc = "fetchNvd"])
       [] wk.pc = "fetchNvd" ->
            IF p.net.nvd[Head(wk.cves)].status = "throw"
            THEN Finish(p, w, LookupFailed)
            ELSE IF p.net.nvd[Head(wk.cves)].status = "score"
            THEN SetWorker(p, w, [wk EXCEPT !.pc = "writeNvd",
                                            !.score = p.net.nvd[Head(wk.cves)].score])
            ELSE EnterNvd(p, w, [wk EXCEPT !.cves = Tail(wk.cves)])
       [] wk.pc = "writeNvd" ->
            Finish([p EXCEPT !.dir = writeNvdCache(p.dir, Head(wk.cves), wk.score, t)],
                   w, FoundScore(wk.score))
       [] wk.pc = "readGhsa" ->
            IF readGhsaCache(p.cfg, p.dir, Head(wk.ghsas), t).hit
            THEN Finish(p, w, FoundSeverity(readGhsaCache(p.cfg, p.dir, Head(wk.ghsas), t).value))
            ELSE SetWorker(p, w, [wk EXCEPT !.pc = "fetchGhsa"])
       [] wk.pc = "fetchGhsa" ->
            IF p.net.ghsa[Head(wk.ghsas)].status = "throw"
            THEN Finish(p, w, LookupFailed)
            ELSE IF fetchGhsaSeverity(p.net.ghsa[Head(wk.ghsas)]).hit
            THEN SetWorker(p, w, [wk EXCEPT
                                    !.pc = "writeGhsa",
                                    !.sev = fetchGhsaSeverity(p.net.ghsa[Head(wk.ghsas)]).value])
            ELSE EnterGhsa(p, w, [wk EXCEPT !.ghsas = Tail(wk.ghsas)])
       [] wk.pc = "writeGhsa" ->
            Finish([p EXCEPT !.dir = writeGhsaCache(p.dir, Head(wk.ghsas), wk.sev, t)],
                   w, FoundSeverity(wk.sev))

\* Promise.all(workers) resolved: every closure returned.
PoolFinished(p) == \A w \in 1..Len(p.workers) : p.workers[w].st = "done"

\* ------------------------------------------------- two concurrent runs
\* Two online batchQuery calls of two processes on one cache directory,
\* one file-system call at a time.  A run stands at an await of
\* batchQuery, pruneExpiredCache, readCache or fetchBatch.

\* What the batch endpoint answers for a package during the two runs.
Answer(k) ==
  IF k = <<"a", "1">> THEN [hasVulns |-> TRUE, vulns |-> <<RawCritical>>]
  ELSE [hasVulns |-> FALSE, vulns |-> <<>>]
FetchedFor(k) ==
  [j \in 1..Len(RawAt(<<Answer(k)>>, 1)) |->
     normalizeVuln(RawAt(<<Answer(k)>>, 1)[j], "osv")]
\* The list an older answer of the endpoint left in the cache.
Older(k) == IF FetchedFor(k) = <<>> THEN <<normalizeVuln(RawCritical, "osv")>> ELSE <<>>

NoResult == Result("none", <<>>)
NoRun ==
  [pc |-> "done", refreshCache |-> FALSE, packages |-> <<>>,
   prune |-> [k \in Keys |-> "none"], i |-> 0, toFetch |-> <<>>, w |-> 0,
   response |-> [k \in Keys |-> NoResult], unlinks |-> {}]
NoRuns == [op |-> "none", dir0 |-> EmptyFs, dir |-> EmptyFs, run |-> <<NoRun, NoRun>>]

\* batchQuery up to its first file-system call after mkdir: the readdir of
\* pruneExpiredCache.
StartRun(packages, refreshCache) ==
  [NoRun EXCEPT !.pc = "readdir", !.refreshCache = refreshCache,
                !.packages = packages]

\* A read loop that looks at the cache whatever refreshCache says.
BeginReads_IgnoresRefresh(run) == [run EXCEPT !.pc = "stat", !.i = 1]

\* The read loop of batchQuery starts: with refreshCache every readCache
\* returns null without touching the disk.
BeginReads(run) ==
  IF run.refreshCache
  THEN [run EXCEPT !.pc = "fetch", !.toFetch = run.packages]
  ELSE [run EXCEPT !.pc = "stat", !.i = 1]

\* The read loop goes on to the next package, or to fetchBatch, or returns.
NextRead(run) ==
  IF run.i < Len(run.packages) THEN [run EXCEPT !.pc = "stat", !.i = run.i + 1]
  ELSE IF run.toFetch = <<>> THEN [run EXCEPT !.pc = "done"]
  ELSE [run EXCEPT !.pc = "fetch"]

\* Promise.all of the prune resolved once every entry is done.
PruneEnds(run) ==
  IF \A k \in Keys : run.prune[k] \in {"none", "done"} THEN BeginReads(run) ELSE run

\* One file-system call of the prune of entry k: the stat, whose error
\* (the file is gone) is swallowed, or the unlink that follows a stat of an
\* expired file; the unlink removes whatever file is there now.
PruneEntry(dir, run, k, t) ==
  IF run.prune[k] = "stat"
  THEN IF dir.batch[k].exists /\ Expired(dir.batch[k], t)
       THEN [dir |-> dir, run |-> [run EXCEPT !.prune[k] = "unlink"]]
       ELSE [dir |-> dir, run |-> PruneEnds([run EXCEPT !.prune[k] = "done"])]
  ELSE IF dir.batch[k].exists
       THEN [dir |-> [dir EXCEPT !.batch[k] = NoBatchFile],
             run |-> PruneEnds([run EXCEPT
                                  !.prune[k] = "done",
                                  !.unlinks = @ \cup {[key |-> k,
                                                       expired |-> Expired(dir.batch[k], t)]}])]
       ELSE [dir |-> dir, run |-> PruneEnds([run EXCEPT !.prune[k] = "done"])]

\* The continuation of a run after the await it stands at, other than the
\* prune of an entry.
RunStep(dir, run, t) ==
  LET k == IF run.pc \in {"stat", "readFile"} THEN Key(run.packages[run.i])
           ELSE IF run.pc = "write" THEN Key(run.toFetch[run.w])
           ELSE <<"a", "1">>
      pkg == IF run.pc = "write" THEN run.toFetch[run.w] ELSE run.packages[run.i]
      miss == NextRead([run EXCEPT !.toFetch = Append(run.toFetch, run.packages[run.i])])
  IN CASE run.pc = "readdir" ->
            [dir |-> dir,
             run |-> PruneEnds([run EXCEPT
                                  !.pc = "prune",
                                  !.prune = [e \in Keys |->
                                               IF dir.batch[e].exists THEN "stat"
                                               ELSE "none"]])]
       [] run.pc = "stat" ->
            [dir |-> dir,
             run |-> IF dir.batch[k].exists /\ ~Expired(dir.batch[k], t)
                     THEN [run EXCEPT !.pc = "readFile"]
                     ELSE miss]
       [] run.pc = "readFile" ->
            [dir |-> dir,
             run |-> IF dir.batch[k].exists
                     THEN NextRead([run EXCEPT
                                      !.response[k] =
                                        Result("cache",
                                               [j \in 1..Len(ParseList(dir.batch[k].data)) |->
                                                  normalizeCachedVuln(ParseList(dir.batch[k].data)[j])])])
                     ELSE miss]
       [] run.pc = "fetch" ->
            [dir |-> dir, run |-> [run EXCEPT !.pc = "write", !.w = 1]]
       [] run.pc = "write" ->
            [dir |-> writeCache(dir, pkg, FetchedFor(k), t),
             run |-> IF run.w < Len(run.toFetch) THEN [run EXCEPT !.w = run.w + 1]
                     ELSE [run EXCEPT
                             !.pc = "done",
                             !.response = [e \in Keys |->
                                             IF \E n \in 1..Len(run.toFetch) :
                                                  Key(run.toFetch[n]) = e
                                             THEN Result("osv", FetchedFor(e))
                                             ELSE run.response[e]]]]

RunsFinished(rs) == \A r \in 1..2 : rs.run[r].pc = "done"

\* ------------------------------------------------------------ state machine
NoCall ==
  [op |-> "none", packages |-> <<>>, cfg |-> Cfg(TRUE, FALSE, FALSE),
   batchStatus |-> "none", batchResults |-> <<>>, disk |-> DiskOk,
   healthy |-> <<>>,
   before |-> EmptyFs,
   response |-> <<>>,
   toFetch |-> <<>>, pruned |-> FALSE, batchRequests |-> 0, enrich |-> <<>>]

NoScan ==
  [op |-> "none", options |-> NoOptions,
   deps |-> <<>>, project |-> EmptyProject, report |-> NoReport, read |-> {}]

NoCli ==
  [op |-> "none",
   argv |-> Argv("strict", FALSE, Undefined, Undefined, FALSE, "none", FALSE,
                 "unknown", "json", FALSE),
   fault |-> "none", before |-> EmptyFs,
   result |-> Outcome(0, FALSE, FALSE, FALSE, NoOptions, NoReport, {}, EmptyFs)]

NoLib == [op |-> "none", input |-> <<>>, output |-> <<>>]

Init ==
  /\ now = 0
  /\ fs = EmptyFs
  /\ call = NoCall
  /\ scan = NoScan
  /\ cli = NoCli
  /\ lib = NoLib
  /\ pool = NoPool
  /\ runs = NoRuns

Idle ==
  /\ call.op = "none" /\ scan.op = "none" /\ cli.op = "none" /\ lib.op = "none"
  /\ pool.op = "none" /\ runs.op = "none"

CallRecord(packages, cfg, net, dir, out) ==
  [op |-> "batchQuery", packages |-> packages, cfg |-> cfg,
   batchStatus |-> net.batch.status, batchResults |-> net.batch.results,
   disk |-> net.disk, healthy |-> <<>>,
   before |-> dir,
   response |-> out.response, toFetch |-> out.toFetch, pruned |-> out.pruned,
   batchRequests |-> out.batchRequests, enrich |-> out.enrich]

ScanRecord(options, deps, project, ran) ==
  [op |-> "runScan", options |-> options, deps |-> deps, project |-> project,
   report |-> ran.report, read |-> ran.read]

\* The networks a call with this configuration can tell apart: the
\* endpoints are only varied when the call has something to fetch.
NetsFor(packages, cfg, dir, t) ==
  Nets(Len(ToFetch(packages, cfg,
                   IF ShouldPrune(cfg) THEN pruneExpiredCache(dir, t) ELSE dir, t)),
       cfg)

\* Time passes between calls.
Tick ==
  /\ Idle
  /\ \E t \in Instants : t > now /\ now' = t
  /\ UNCHANGED <<fs, call, scan, cli, lib, pool, runs>>

\* The effect of a batchQuery call with the outcome out.
Queried(packages, cfg, net, out) ==
  /\ fs' = out.dir
  /\ call' = CallRecord(packages, cfg, net, fs, out)

\* A caller constructs an OsvClient and awaits batchQuery(packages).
Query ==
  /\ Idle
  /\ \E packages \in PackageLists, cfg \in Cfgs :
       \E net \in NetsFor(packages, cfg, fs, now) :
         Queried(packages, cfg, net, batchQuery(packages, cfg, fs, net, now))
  /\ UNCHANGED <<now, scan, cli, lib, pool, runs>>

\* The effect of a runScan call with the outcome ran.
Scanned(options, deps, project, net, ran) ==
  /\ fs' = ran.out.dir
  /\ call' = CallRecord(ran.packages, ran.cfg, net, fs, ran.out)
  /\ scan' = ScanRecord(options, deps, project, ran)

\* A caller awaits runScan(options) on a project with these dependencies.
RunScan ==
  /\ Idle
  /\ \E options \in ScanOptionsSet, deps \in DepLists, project \in Projects :
       \E net \in NetsFor(Packages(deps), ClientConfig(options), fs, now) :
         Scanned(options, deps, project, net,
                 runScan(options, deps, project, fs, net, now))
  /\ UNCHANGED <<now, cli, lib, pool, runs>>

\* The caller has consumed the result; the result of an enrichment pass is
\* there once Promise.all resolved.
Return ==
  /\ ~Idle
  /\ pool.op = "none" \/ PoolFinished(pool)
  /\ runs.op = "none" \/ RunsFinished(runs)
  /\ call' = NoCall /\ scan' = NoScan /\ cli' = NoCli /\ lib' = NoLib
  /\ pool' = NoPool /\ runs' = NoRuns
  /\ UNCHANGED <<now, fs>>

\* The effect of a scan command with the outcome result.
Commanded(argv, fault, result) ==
  /\ fs' = result.dir
  /\ cli' = [op |-> "scan", argv |-> argv, fault |-> fault, before |-> fs,
             result |-> result]

\* The networks the db update of a command can tell apart.
UpdateNets(argv, fault, deps, settings) ==
  IF settings.ok /\ argv.updateDb /\ fault \notin {"mkdir", "updateAdvisoryDb"}
  THEN NetsFor(Packages(deps),
               Cfg(FALSE, argv.refreshCache, settings.enableNetworkFallbacks),
               fs, now)
  ELSE {NetDown}

\* The networks the scan of a command can tell apart; upToScan is the
\* outcome of the command when it stops at the call of runScan.
ScanNets(argv, fault, deps, upToScan) ==
  IF /\ upToScan.calledScan
     /\ fault \notin {"mkdir", "runScan"}
     /\ ~(argv.updateDb /\ fault = "updateAdvisoryDb")
  THEN NetsFor(Packages(deps), ClientConfig(upToScan.scanOptions),
               upToScan.dir, now)
  ELSE {NetDown}

\* A user runs the scan command.
ScanCommand ==
  /\ Idle
  /\ \E line \in CommandLines, deps \in DirectDepLists :
       \E updateNet \in UpdateNets(line[1], line[2], deps,
                                   resolveScanSettings(line[1])) :
         \E scanNet \in ScanNets(line[1], line[2], deps,
                                 scanCommand(line[1], "runScan", deps,
                                             ImportingProject, fs, updateNet,
                                             NetDown, now)) :
           Commanded(line[1], line[2],
                     scanCommand(line[1], line[2], deps, ImportingProject, fs,
                                 updateNet, scanNet, now))
  /\ UNCHANGED <<now, call, scan, lib, pool, runs>>

Next == Tick \/ Query \/ Return

Spec == Init /\ [][Next]_vars

\* The fallback endpoints in every combination of their answers.
AllFallbacks ==
  {DetailThrows, DetailResolves, DetailUnresolved}
    \X {NvdThrows, NvdNull, NvdScore}
    \X {GhsaThrows, GhsaNotOk, GhsaCvss, GhsaLabel}

\* The networks of a call whose fallback chain can take every path.
AllNets(n, cfg) ==
  IF n = 0 THEN {NetDown}
  ELSE UNION {
    IF cfg.enableNetworkFallbacks /\ HasUnknown(b)
    THEN {Net(b, f[1], f[2], f[3]) : f \in AllFallbacks}
    ELSE {[NetDown EXCEPT !.batch = b]} : b \in BatchReplies(n)}

\* The lockfiles of the fallback model: no package, or the package a@1.
SinglePackageLists == {s \in PackageLists : \A i \in 1..Len(s) : s[i].name = "a"}

\* A caller awaits batchQuery while the fallback endpoints answer in any way.
QueryWithFallbacks ==
  /\ Idle
  /\ \E packages \in SinglePackageLists, cfg \in Cfgs :
       \E net \in AllNets(Len(ToFetch(packages, cfg,
                                      IF ShouldPrune(cfg)
                                      THEN pruneExpiredCache(fs, now) ELSE fs,
                                      now)), cfg) :
         Queried(packages, cfg, net, batchQuery(packages, cfg, fs, net, now))
  /\ UNCHANGED <<now, scan, cli, lib, pool, runs>>

\* The client with every path of the fallback chain, over time.
FallbackNext == Tick \/ QueryWithFallbacks \/ Return

FallbackSpec == Init /\ [][FallbackNext]_vars

\* The writes that can fail during a call, and the endpoints of the disk
\* model: the answers after which the chain writes a cache file.
\* One kind of write fails at a time.
Disks ==
  {DiskOk, Disk({}, TRUE, FALSE, FALSE), Disk({}, FALSE, TRUE, FALSE),
   Disk({}, FALSE, FALSE, TRUE)}
    \cup {Disk({k}, FALSE, FALSE, FALSE) : k \in Keys}
WritingFallbacks ==
  {<<DetailThrows, NvdThrows, GhsaThrows>>,
   <<DetailResolves, NvdThrows, GhsaThrows>>,
   <<DetailUnresolved, NvdScore, GhsaThrows>>,
   <<DetailUnresolved, NvdNull, GhsaLabel>>}
DiskNets(n, cfg) ==
  IF n = 0 THEN {NetDown}
  ELSE UNION {
    IF cfg.enableNetworkFallbacks /\ HasUnknown(b)
    THEN {Net(b, f[1], f[2], f[3]) : f \in WritingFallbacks}
    ELSE {[NetDown EXCEPT !.batch = b]} : b \in BatchReplies(n)}

\* The effect of a call on a disk with failing writes; the record keeps
\* what the same call answers when every write succeeds.
QueriedOnDisk(packages, cfg, net, disk) ==
  /\ fs' = batchQuery(packages, cfg, fs, [net EXCEPT !.disk = disk], now).dir
  /\ call' = [CallRecord(packages, cfg, [net EXCEPT !.disk = disk], fs,
                         batchQuery(packages, cfg, fs,
                                    [net EXCEPT !.disk = disk], now))
                EXCEPT !.healthy = batchQuery(packages, cfg, fs, net, now).response]

\* A caller awaits batchQuery on an online client while writes to the
\* cache directory may fail.
QueryOnDisk ==
  /\ Idle
  /\ \E packages \in PackageLists, cfg \in {c \in Cfgs : ~c.offline}, disk \in Disks :
       \E net \in DiskNets(Len(ToFetch(packages, cfg, pruneExpiredCache(fs, now),
                                        now)), cfg) :
         QueriedOnDisk(packages, cfg, net, disk)
  /\ UNCHANGED <<now, scan, cli, lib, pool, runs>>

\* The online client on a disk whose writes may fail, within one TTL.
DiskNext == QueryOnDisk \/ Return

DiskSpec == Init /\ [][DiskNext]_vars

\* The unresolved vulnerabilities of a pass: two advisories that share the
\* alias CVE-1 and the advisory GHSA-1, or up to MaxItems vulnerabilities
\* without aliases.
SharedItems ==
  {[id |-> "GHSA-1", aliases |-> <<"CVE-1">>],
   [id |-> "OSV-1", aliases |-> <<"CVE-1", "GHSA-1">>]}
SharedItemLists == DistinctSeqs(SharedItems, 2) \ {<<>>}
LongItemLists ==
  {[i \in 1..n |-> [id |-> ItemIds[i], aliases |-> <<>>]] : n \in 1..MaxItems}

\* The cache directories a pass starts on: empty, or with a fresh nvd or
\* ghsa entry that differs from what the endpoint answers.
PoolDirs ==
  {PoolDir(NoNvdFile, NoGhsaFile), PoolDir(File(now, 95), NoGhsaFile),
   PoolDir(NoNvdFile,
           File(now, [severity |-> "low", severitySource |-> "ghsa_label"]))}

PoolCfgs == {Cfg(FALSE, r, TRUE) : r \in BOOLEAN}

\* fetchBatch awaits enrichUnknownVulns(unresolved): the pool starts.
StartEnrich ==
  /\ Idle
  /\ \/ \E items \in SharedItemLists, cfg \in PoolCfgs, dir \in PoolDirs,
            f \in AllFallbacks :
          pool' = StartPool(items, cfg, dir, PoolNet(f[1], f[2], f[3]))
     \/ \E items \in LongItemLists :
          pool' = StartPool(items, Cfg(FALSE, FALSE, TRUE),
                            PoolDir(NoNvdFile, NoGhsaFile),
                            PoolNet(IF Len(items) < ENRICH_CONCURRENCY
                                    THEN DetailResolves ELSE DetailThrows,
                                    NvdThrows, GhsaThrows))
  /\ UNCHANGED <<now, fs, call, scan, cli, lib, runs>>

\* The event loop runs the continuation of one worker whose await settled.
WorkerStep ==
  /\ pool.op = "enrich"
  /\ \E w \in 1..Len(pool.workers) :
       /\ pool.workers[w].st = "busy"
       /\ pool' = PoolStep(pool, w, now)
  /\ UNCHANGED <<now, fs, call, scan, cli, lib, runs>>

\* The enrichment pass under every interleaving of its workers.
PoolNext == StartEnrich \/ WorkerStep \/ Return

PoolSpec == Init /\ [][PoolNext]_vars

\* Every pending await settles (file operations complete, every fetch has
\* the 15 s abort timer) and the event loop runs every ready continuation.
PoolLiveSpec == PoolSpec /\ WF_vars(WorkerStep)

\* The cache directories two runs start on: per package no entry, a fresh
\* entry with the list the endpoint answers, a fresh entry with an older
\* list, or an expired entry.
EntryKinds == {"none", "fresh", "older", "expired"}
EntryOf(k, kind, t) ==
  IF kind = "none" THEN NoBatchFile
  ELSE IF kind = "fresh" THEN BatchFile(t, StringifyList(FetchedFor(k)), FetchedFor(k))
  ELSE IF kind = "older" THEN BatchFile(t, StringifyList(Older(k)), Older(k))
  ELSE BatchFile(t - TTL_MS - 1, StringifyList(Older(k)), Older(k))
RunDirs(t) ==
  {[EmptyFs EXCEPT !.batch = [k \in Keys |-> EntryOf(k, kinds[k], t)]] :
     kinds \in [Keys -> EntryKinds]}
RunPackageLists == PackageLists \ {<<>>}

\* Two processes call batchQuery on the same cache directory.
StartRuns ==
  /\ Idle
  /\ \E dir \in RunDirs(now), p1 \in RunPackageLists, p2 \in RunPackageLists,
        r1 \in BOOLEAN, r2 \in BOOLEAN :
       runs' = [op |-> "runs", dir0 |-> dir, dir |-> dir,
                run |-> <<StartRun(p1, r1), StartRun(p2, r2)>>]
  /\ UNCHANGED <<now, fs, call, scan, cli, lib, pool>>

\* The prune of one run makes one file-system call on one entry.
PruneStep ==
  /\ runs.op = "runs"
  /\ \E r \in 1..2, k \in Keys :
       /\ runs.run[r].pc = "prune" /\ runs.run[r].prune[k] \in {"stat", "unlink"}
       /\ runs' = [runs EXCEPT
                     !.dir = PruneEntry(runs.dir, runs.run[r], k, now).dir,
                     !.run[r] = PruneEntry(runs.dir, runs.run[r], k, now).run]
  /\ UNCHANGED <<now, fs, call, scan, cli, lib, pool>>

\* One run continues after a readdir, a cache read, the batch request or
\* a cache write.
RunStepOf ==
  /\ runs.op = "runs"
  /\ \E r \in 1..2 :
       /\ runs.run[r].pc \in {"readdir", "stat", "readFile", "fetch", "write"}
       /\ runs' = [runs EXCEPT
                     !.dir = RunStep(runs.dir, runs.run[r], now).dir,
                     !.run[r] = RunStep(runs.dir, runs.run[r], now).run]
  /\ UNCHANGED <<now, fs, call, scan, cli, lib, pool>>

\* Two runs on one cache directory under every interleaving.
RunsNext == StartRuns \/ PruneStep \/ RunStepOf \/ Return

RunsSpec == Init /\ [][RunsNext]_vars

\* -------------------------------------------------------- lock-parser
\* `${name}@${version}`
At == <<64>>
DepKey(name, version) == CodeUnits[name] \o At \o CodeUnits[version]

DependencyNode(name, version, direct) ==
  [name |-> name, version |-> version, direct |-> direct]

\* A Map<string, DependencyNode>: its entries in insertion order.
MapHas(map, key) == \E i \in 1..Len(map) : map[i].key = key
MapGet(map, key) == map[CHOOSE i \in 1..Len(map) : map[i].key = key].value
MapSet(map, key, value) ==
  IF MapHas(map, key)
  THEN [i \in 1..Len(map) |->
          IF map[i].key = key THEN [key |-> key, value |-> value] ELSE map[i]]
  ELSE Append(map, [key |-> key, value |-> value])
MapValues(map) == [i \in 1..Len(map) |-> map[i].value]

\* An upsert that keeps the first occurrence as it is.
upsertDependency_KeepsFirst(map, key, name, version, direct) ==
  IF ~MapHas(map, key) THEN MapSet(map, key, DependencyNode(name, version, direct))
  ELSE map

\* upsertDependency, and the same statements inlined in parseNpmLock and
\* traverseLegacy.
upsertDependency(map, key, name, version, direct) ==
  IF ~MapHas(map, key) THEN MapSet(map, key, DependencyNode(name, version, direct))
  ELSE IF direct /\ ~MapGet(map, key).direct
       THEN MapSet(map, key, [MapGet(map, key) EXCEPT !.direct = TRUE])
  ELSE map

\* A key of lock.packages is a path, kept as the list of its segments.
NodeModules == "node_modules"
PkgPaths ==
  {<<>>, <<"packages", "a">>,
   <<NodeModules, "a">>, <<NodeModules, "b">>,
   <<NodeModules, "b", NodeModules, "a">>,
   <<NodeModules, "a", NodeModules, "b">>}

\* The segment after the last node_modules/ of a path that starts with one.
getPackageNameFromPath(pkgPath) ==
  IF pkgPath = <<>> THEN Null
  ELSE IF pkgPath[1] # NodeModules THEN Null
  ELSE LET last == CHOOSE i \in 1..Len(pkgPath) :
                     /\ pkgPath[i] = NodeModules
                     /\ \A j \in (i + 1)..Len(pkgPath) : pkgPath[j] # NodeModules
       IN IF last = Len(pkgPath) THEN Null ELSE pkgPath[last + 1]

isDirectPackagePath(pkgPath) ==
  IF pkgPath = <<>> THEN FALSE
  ELSE pkgPath[1] = NodeModules /\ Len(pkgPath) = 2

\* The loop of parseNpmLock over Object.entries(lock.packages).
RECURSIVE PackagesLoop(_, _)
PackagesLoop(entries, map) ==
  IF entries = <<>> THEN map
  ELSE IF getPackageNameFromPath(Head(entries).path) = Null
          \/ Head(entries).version = Undefined
       THEN PackagesLoop(Tail(entries), map)
  ELSE PackagesLoop(Tail(entries),
                    upsertDependency(map,
                                     DepKey(getPackageNameFromPath(Head(entries).path),
                                            Head(entries).version),
                                     getPackageNameFromPath(Head(entries).path),
                                     Head(entries).version,
                                     isDirectPackagePath(Head(entries).path)))

\* traverseLegacy: a dependency without a version is skipped with its
\* subtree; nested dependencies are not direct.
RECURSIVE traverseLegacy(_, _, _)
traverseLegacy(deps, direct, map) ==
  IF deps = <<>> THEN map
  ELSE IF Head(deps).version = Undefined
       THEN traverseLegacy(Tail(deps), direct, map)
  ELSE traverseLegacy(Tail(deps), direct,
                      traverseLegacy(Head(deps).dependencies, FALSE,
                                     upsertDependency(map,
                                                      DepKey(Head(deps).name,
                                                             Head(deps).version),
                                                      Head(deps).name,
                                                      Head(deps).version, direct)))

\* parseNpmLock once lock.packages was read: the legacy tree is used when
\* the map is still empty.
AfterPackages(lock, map) ==
  MapValues(IF Len(map) = 0 THEN traverseLegacy(lock.dependencies, TRUE, map)
            ELSE map)

\* parseNpmLock.  An absent packages or dependencies object is the empty
\* one: neither has an entry to loop over.
parseNpmLock(lock) ==
  AfterPackages(lock,
                IF lock.lockfileVersion >= 2 THEN PackagesLoop(lock.packages, <<>>)
                ELSE <<>>)

\* The loop of parsePnpmLock over Object.keys(lock.packages).  A key
\* [/]name@version[(peers)] is kept as what parsePnpmPackageKey makes of it:
\* its name and version, and null (skipped) when the version is empty.
RECURSIVE PnpmLoop(_, _, _)
PnpmLoop(keys, directNames, map) ==
  IF keys = <<>> THEN map
  ELSE IF Head(keys).version = "" THEN PnpmLoop(Tail(keys), directNames, map)
  ELSE PnpmLoop(Tail(keys), directNames,
                upsertDependency(map, DepKey(Head(keys).name, Head(keys).version),
                                 Head(keys).name, Head(keys).version,
                                 Head(keys).name \in directNames))

parsePnpmLock(lock) == MapValues(PnpmLoop(lock.packages, lock.directNames, <<>>))

\* parsePackageLock: the parser of the lockfile that exists.
parsePackageLock(file) ==
  IF file.kind = "package-lock.json" THEN parseNpmLock(file.lock)
  ELSE parsePnpmLock(file.lock)

\* ------------------------------------------------ the library functions
\* The findings sortFindings is called with: a dependency, direct or not
\* (the flag is not part of the sort key), a second version of it and the
\* hyphenated extension of its name; two severities, one advisory or another.
SortableDeps ==
  {DependencyNode("a", "1", TRUE), DependencyNode("a", "1", FALSE),
   DependencyNode("a", "2", FALSE), DependencyNode("a-b", "1", FALSE)}
SortableFindings ==
  {Finding(dep,
           Mapped(sev, IF sev = "unknown" THEN "unknown" ELSE "osv_label",
                  IF sev = "unknown" THEN "missing_score" ELSE Undefined),
           "medium", <<>>,
           <<[id |-> id, severity |-> sev,
              severitySource |-> IF sev = "unknown" THEN "unknown" ELSE "osv_label",
              unknownReason |-> IF sev = "unknown" THEN "missing_score" ELSE Undefined]>>,
           "osv") :
     dep \in SortableDeps, sev \in {"high", "unknown"}, id \in VulnIds}

\* A caller sorts a list of findings.
SortFindings ==
  /\ Idle
  /\ \E findings \in SeqsUpTo(SortableFindings, MaxFindings) :
       lib' = [op |-> "sortFindings", input |-> findings,
               output |-> sortFindings(findings)]
  /\ UNCHANGED <<now, fs, call, scan, cli, pool, runs>>

\* The arguments shouldFail is called with: the values of FailOn and of
\* Severity, and a string that is neither.
ThresholdArgs == FailOns \cup {"invalid-threshold"}
SeverityArgs == Severities \cup {"invalid-severity"}

\* A caller asks whether a severity meets a threshold.
ShouldFail ==
  /\ Idle
  /\ \E failOn \in ThresholdArgs, findingSeverity \in SeverityArgs :
       lib' = [op |-> "shouldFail", input |-> <<failOn, findingSeverity>>,
               output |-> shouldFail(failOn, findingSeverity)]
  /\ UNCHANGED <<now, fs, call, scan, cli, pool, runs>>

\* The vulnerabilities of a lookup result that runScan grades: each
\* severity with one source or reason and with another.
GradedVulns ==
  {[id |-> "OSV-1", severity |-> sev,
    severitySource |-> IF sev = "unknown" THEN "unknown" ELSE "osv_cvss",
    unknownReason |-> IF sev = "unknown" THEN "missing_score" ELSE Undefined] :
     sev \in Severities}
  \cup
  {[id |-> "GHSA-1", severity |-> sev,
    severitySource |-> IF sev = "unknown" THEN "unknown" ELSE "alias_cvss",
    unknownReason |-> IF sev = "unknown" THEN "lookup_failed" ELSE Undefined] :
     sev \in Severities}

\* runScan grades the dependency a@1 by the vulnerabilities of its result.
GradeFinding ==
  /\ Idle
  /\ \E vulnerabilities \in SeqsUpTo(GradedVulns, MaxVulns) \ {<<>>} :
       lib' = [op |-> "VulnFinding", input |-> vulnerabilities,
               output |-> <<VulnFinding(DependencyNode("a", "1", TRUE),
                                        Result("osv", vulnerabilities), <<>>)>>]
  /\ UNCHANGED <<now, fs, call, scan, cli, pool, runs>>

\* lock.packages of a package-lock.json: the paths are the keys of an
\* object, so they are distinct; an entry may lack its version.
PackageEntries == [path : PkgPaths, version : LibVersions \cup {Undefined}]
PackagesObjects ==
  {s \in SeqsUpTo(PackageEntries, MaxEntries) :
     \A i, j \in 1..Len(s) : i # j => s[i].path # s[j].path}

\* lock.dependencies of a legacy package-lock.json: up to two dependencies,
\* each with at most one nested dependency.
LegacyLeaves ==
  [name : Names, version : LibVersions \cup {Undefined}, dependencies : {<<>>}]
LegacyDeps ==
  [name : Names, version : LibVersions \cup {Undefined},
   dependencies : {<<>>} \cup {<<c>> : c \in LegacyLeaves}]
LegacyTrees ==
  {s \in SeqsUpTo(LegacyDeps, 2) : \A i, j \in 1..Len(s) : i # j => s[i].name # s[j].name}

NpmLock(lockfileVersion, packages, dependencies) ==
  [lockfileVersion |-> lockfileVersion, packages |-> packages,
   dependencies |-> dependencies]

\* Lockfiles with a packages object, legacy lockfiles, and lockfiles that
\* have one entry of each.
NpmLocks ==
  {NpmLock(2, p, <<>>) : p \in PackagesObjects}
    \cup {NpmLock(1, <<>>, d) : d \in LegacyTrees}
    \cup {NpmLock(v, p, d) :
            v \in {1, 2},
            p \in {q \in PackagesObjects : Len(q) = 1},
            d \in {t \in LegacyTrees : Len(t) = 1 /\ t[1].dependencies = <<>>}}

\* A pnpm-lock.yaml: the names the importers depend on, and the distinct
\* keys of its packages object.
PnpmKeys == [name : Names, version : {"1", ""}, peers : BOOLEAN]
PnpmLocks ==
  {[directNames |-> d, packages |-> k] :
     d \in SUBSET Names,
     k \in {s \in SeqsUpTo(PnpmKeys, MaxEntries) :
              \A i, j \in 1..Len(s) : i # j => s[i] # s[j]}}

LockFiles ==
  {[kind |-> "package-lock.json", lock |-> l] : l \in NpmLocks}
    \cup {[kind |-> "pnpm-lock.yaml", lock |-> l] : l \in PnpmLocks}

\* A caller parses the lockfile of a project.
ParsePackageLock ==
  /\ Idle
  /\ \E file \in LockFiles :
       lib' = [op |-> "parsePackageLock", input |-> file,
               output |-> parsePackageLock(file)]
  /\ UNCHANGED <<now, fs, call, scan, cli, pool, runs>>

\* The calls of the library functions.
LibNext == SortFindings \/ ShouldFail \/ ParsePackageLock \/ GradeFinding \/ Return

LibSpec == Init /\ [][LibNext]_vars

\* The scans of one instant: the cache is filled by earlier scans and by
\* direct client calls.
ScanNext == Query \/ RunScan \/ Return

ScanSpec == Init /\ [][ScanNext]_vars

\* The scan commands of one instant.
CliNext == ScanCommand \/ Return

CliSpec == Init /\ [][CliNext]_vars


\* ================================================================== claims
\* Helpers over the record of the last batchQuery call.
CallKeys == {Key(call.packages[i]) : i \in 1..Len(call.packages)}
QueuedKeys == {Key(call.toFetch[i]) : i \in 1..Len(call.toFetch)}
Answered == call.op = "batchQuery" /\ DOMAIN call.response = CallKeys

\* The package had a cache entry the call could use: the file existed when
\* the call began, its age was at most the TTL and reads were not refreshed.
Usable(k) ==
  /\ ~call.cfg.refreshCache
  /\ call.before.batch[k].exists
  /\ now - call.before.batch[k].mtime <= TTL_MS

\* The fallback requests (OSV detail, NVD, GHSA) the call sent.
FallbackRequests ==
  UNION {Range(call.enrich[i].reqs) : i \in 1..Len(call.enrich)}

FallbackSources ==
  {"osv_detail_cvss", "osv_detail_label", "alias_cvss", "ghsa_cvss", "ghsa_label"}

\* C1: an online batchQuery whose batch request fails still answers every
\* package: the queued ones are unknown with no vulnerabilities, the ones
\* with a usable cache entry keep source cache and the cached list.
C1_BatchFailureIsUnknown ==
  (call.op = "batchQuery" /\ ~call.cfg.offline /\ call.batchStatus # "ok") =>
     /\ Answered
     /\ \A k \in CallKeys :
          IF Usable(k)
          THEN /\ k \notin QueuedKeys
               /\ call.response[k] = Result("cache", call.before.batch[k].returned)
          ELSE /\ k \in QueuedKeys
               /\ call.response[k] = Result("unknown", <<>>)

C1_Witness ==
  /\ call.op = "batchQuery" /\ ~call.cfg.offline /\ call.batchStatus = "throw"
  /\ call.batchRequests = 1
  /\ \E k \in CallKeys : call.response[k].source = "cache"
  /\ \E k \in CallKeys : call.response[k] = Result("unknown", <<>>)

\* C3: an offline batchQuery sends no request at all, leaves the cache
\* directory as it was (no prune, no write) and answers every cache miss
\* with source unknown instead of queueing it.
C3_OfflineNoNetwork ==
  (call.op = "batchQuery" /\ call.cfg.offline) =>
     /\ call.batchRequests = 0
     /\ FallbackRequests = {}
     /\ call.toFetch = <<>>
     /\ ~call.pruned
     /\ fs = call.before
     /\ Answered
     /\ \A k \in CallKeys : ~Usable(k) => call.response[k] = Result("unknown", <<>>)

C3_Witness ==
  /\ call.op = "batchQuery" /\ call.cfg.offline
  /\ \E k \in CallKeys :
       /\ call.before.batch[k].exists
       /\ Expired(call.before.batch[k], now)
       /\ call.response[k].source = "unknown"
  /\ \E k \in CallKeys : call.response[k].source = "cache"

\* C10: a package whose cache entry was written by an earlier fetch and is
\* within the TTL is answered, when reads are not refreshed, with source
\* cache and exactly the list that fetch returned, and is not queued; when
\* that holds of every package of the call no request is sent, whatever the
\* state of the network.
C10_CacheRoundTrip ==
  call.op = "batchQuery" =>
     /\ \A k \in CallKeys :
          Usable(k) =>
            /\ call.response[k] = Result("cache", call.before.batch[k].returned)
            /\ k \notin QueuedKeys
     /\ (\A k \in CallKeys : Usable(k)) =>
            call.batchRequests = 0 /\ FallbackRequests = {}

C10_Witness ==
  /\ call.op = "batchQuery" /\ ~call.cfg.offline /\ call.batchStatus = "throw"
  /\ CallKeys # {}
  /\ \A k \in CallKeys : Usable(k)
  /\ \E k \in CallKeys :
       \E i \in 1..Len(call.response[k].vulnerabilities) :
         call.response[k].vulnerabilities[i].severitySource = "osv_detail_label"
  /\ \E k \in CallKeys :
       \E i \in 1..Len(call.response[k].vulnerabilities) :
         call.response[k].vulnerabilities[i].unknownReason = "lookup_failed"

\* ------------------------------------------------------ claims of runScan
\* Helpers over the record of the last runScan call and its client call.
ScanFindings == scan.report.findings
FindingsOfDep(dep) ==
  {j \in 1..Len(ScanFindings) :
     /\ ScanFindings[j].packageName = dep.name
     /\ ScanFindings[j].version = dep.version}
UnknownShape(f) ==
  /\ f.source = "unknown" /\ f.severity = "unknown" /\ f.severitySource = "unknown"
  /\ f.confidence = "unknown" /\ f.unknownReason = "lookup_failed"
  /\ f.vulnerabilities = <<>>
OfflineWithoutCache ==
  /\ scan.op = "runScan" /\ scan.options.offline
  /\ \A k \in CallKeys : ~Usable(k)
OnePerDependency ==
  /\ Len(ScanFindings) = Len(scan.deps)
  /\ \A i \in 1..Len(scan.deps) :
       \E j \in FindingsOfDep(scan.deps[i]) :
         ScanFindings[j].direct = scan.deps[i].direct

C4_SummaryCounts ==
  scan.op = "runScan" =>
     /\ scan.report.summary.findingsCount = Len(ScanFindings)
     /\ DOMAIN scan.report.summary.bySeverity = Severities
     /\ DOMAIN scan.report.summary.byConfidence = Confidences
     /\ SumOver(scan.report.summary.bySeverity, Severities) = Len(ScanFindings)
     /\ SumOver(scan.report.summary.byConfidence, Confidences) = Len(ScanFindings)

C4_Witness ==
  /\ scan.op = "runScan" /\ Len(ScanFindings) = 2
  /\ scan.report.summary.bySeverity["unknown"] = 1
  /\ scan.report.summary.bySeverity["critical"] = 1
  /\ scan.report.summary.byConfidence["high"] = 1
  /\ scan.report.summary.byConfidence["unknown"] = 1

\* What the lookup of a dependency says before the policy is applied.
Lookup(dep) == call.response[Key(dep)]
RankOf(sev) ==
  CASE sev = "critical" -> 5 [] sev = "high" -> 4 [] sev = "medium" -> 3
    [] sev = "low" -> 2 [] sev = "unknown" -> 1 [] sev = "none" -> 0
IsTop(vulns, i) ==
  /\ \A j \in 1..Len(vulns) : RankOf(vulns[j].severity) <= RankOf(vulns[i].severity)
  /\ \A j \in 1..(i - 1) : RankOf(vulns[j].severity) < RankOf(vulns[i].severity)
Reported(dep) ==
  Lookup(dep).source = "unknown" \/ Lookup(dep).vulnerabilities # <<>>
WouldBeUnknown(dep) ==
  \/ Lookup(dep).source = "unknown"
  \/ /\ Lookup(dep).vulnerabilities # <<>>
     /\ \A i \in 1..Len(Lookup(dep).vulnerabilities) :
          Lookup(dep).vulnerabilities[i].severity = "unknown"
ReasonBefore(dep) ==
  IF Lookup(dep).source = "unknown" THEN "lookup_failed"
  ELSE Lookup(dep).vulnerabilities[1].unknownReason
SeverityAfter(dep) ==
  IF WouldBeUnknown(dep) THEN scan.options.unknownAs
  ELSE LET vulns == Lookup(dep).vulnerabilities
       IN vulns[CHOOSE i \in 1..Len(vulns) : IsTop(vulns, i)].severity

CliFindings == cli.result.report.findings
\* The command line asks for an online scan, or for telemetry under strict.
Refused ==
  \/ cli.argv.online
  \/ cli.argv.offline = "false"
  \/ cli.argv.telemetry = "on" /\ cli.argv.privacy = "strict"
\* An operation the handler reaches throws.
Threw ==
  \/ Refused
  \/ cli.fault = "mkdir"
  \/ cli.fault = "updateAdvisoryDb" /\ cli.argv.updateDb
  \/ cli.fault = "runScan"
  \/ cli.fault = "report.json" /\ cli.argv.format \in {"json", "both"}
  \/ cli.fault = "report.md" /\ cli.argv.format \in {"md", "both"}
  \/ cli.fault = "report.sarif" /\ cli.argv.format = "sarif"
  \/ cli.fault = "findings.json" /\ cli.argv.findingsJson
ThresholdMet ==
  /\ cli.argv.failOn # "none"
  /\ \E j \in 1..Len(CliFindings) :
       RankOf(CliFindings[j].severity) >= RankOf(cli.argv.failOn)
UnknownMet ==
  /\ cli.argv.failOnUnknown
  /\ \E j \in 1..Len(CliFindings) :
       \/ CliFindings[j].severity = "unknown"
       \/ CliFindings[j].unknownReason \in {"missing_score", "lookup_failed"}

\* C5: the exit code of the scan command is 2 exactly when settings
\* resolution, directory creation, db update, the scan or a report write
\* throws; otherwise 1 exactly when the failOn threshold or the
\* failOnUnknown condition is met by a finding; otherwise 0.
C5_ExitCode ==
  cli.op = "scan" =>
     cli.result.exitCode =
       IF Threw THEN 2 ELSE IF ThresholdMet \/ UnknownMet THEN 1 ELSE 0

C5_Witness ==
  /\ cli.op = "scan" /\ cli.result.exitCode = 1
  /\ cli.argv.failOn = "critical" /\ ~cli.argv.failOnUnknown
  /\ \E j \in 1..Len(CliFindings) : CliFindings[j].severity = "critical"
  /\ \E j \in 1..Len(CliFindings) : CliFindings[j].unknownReason = "lookup_failed"

\* C6: the scan command never calls runScan with offline = false; a command
\* line that asks for an online scan (online, or offline given as false) or
\* for telemetry under privacy strict ends with exit code 2 and a message
\* on stderr, without calling updateAdvisoryDb or runScan, without writing a
\* report file and without touching the cache.
C6_OfflineOnly ==
  cli.op = "scan" =>
     /\ cli.result.calledScan => cli.result.scanOptions.offline
     /\ Refused =>
          /\ cli.result.exitCode = 2
          /\ cli.result.stderr
          /\ ~cli.result.calledUpdate
          /\ ~cli.result.calledScan
          /\ cli.result.written = {}
          /\ fs = cli.before

C6_Witness ==
  /\ cli.op = "scan" /\ cli.argv.offline = "false" /\ ~cli.argv.online
  /\ cli.argv.privacy = "standard" /\ cli.argv.updateDb
  /\ cli.result.exitCode = 2 /\ cli.result.stderr
  /\ \E k \in Keys : fs.batch[k].exists

\* ------------------------------------------------- claims of the cache TTL
\* Helpers over the enrichment entries of the last batchQuery call.
Fresh(file) == file.exists /\ now - file.mtime <= TTL_MS
Stale(file) == file.exists /\ now - file.mtime > TTL_MS
EnrichEntries == {call.enrich[i] : i \in 1..Len(call.enrich)}
Sent(e, kind) == \E i \in 1..Len(e.reqs) : e.reqs[i].kind = kind

\* A worker that got its answer of the namespace without a request read it
\* from the cache.
DetailReadHit(e) == ~Sent(e, "detail")
NvdReadHit(e) == e.res.severitySource = "alias_cvss" /\ ~Sent(e, "nvd")
GhsaReadHit(e) ==
  e.res.severitySource \in {"ghsa_cvss", "ghsa_label"} /\ ~Sent(e, "ghsa")

\* C11: a read of the batch, detail, NVD or GHSA namespace is a hit only if
\* the file existed when the call began and its age is at most the TTL.  A
\* batch entry older than the TTL is a miss: offline the package is answered
\* with source unknown; online it is queued for the batch request and, once
\* the request succeeds, answered from it and its entry rewritten at now.
C11_ExpiredIsMiss ==
  call.op = "batchQuery" =>
     /\ \A k \in CallKeys :
          call.response[k].source = "cache" => Fresh(call.before.batch[k])
     /\ \A e \in EnrichEntries :
          /\ DetailReadHit(e) => Fresh(call.before.details[e.id])
          /\ NvdReadHit(e) => \E c \in CveIds : Fresh(call.before.nvd[c])
          /\ GhsaReadHit(e) => \E g \in GhsaIds : Fresh(call.before.ghsa[g])
     /\ \A k \in CallKeys :
          Stale(call.before.batch[k]) =>
            IF call.cfg.offline
            THEN call.response[k] = Result("unknown", <<>>)
            ELSE /\ k \in QueuedKeys
                 /\ call.batchRequests = 1
                 /\ call.batchStatus = "ok" =>
                      /\ call.response[k].source = "osv"
                      /\ fs.batch[k].exists /\ fs.batch[k].mtime = now

C11_Witness ==
  /\ call.op = "batchQuery" /\ ~call.cfg.offline /\ ~call.cfg.refreshCache
  /\ call.batchStatus = "ok"
  /\ \E k \in CallKeys :
       /\ Stale(call.before.batch[k])
       /\ call.response[k].source = "osv"
       /\ fs.batch[k].mtime = now
  /\ \E e \in EnrichEntries :
       /\ Stale(call.before.details[e.id]) /\ Sent(e, "detail")
       /\ \E c \in CveIds : Stale(call.before.nvd[c])
       /\ Sent(e, "nvd") /\ e.res.severitySource = "alias_cvss"

\* ------------------------------------------------ claims of refreshCache
\* C12: a client with refreshCache set gets no hit from any namespace: no
\* answer has source cache and every worker sends the request of each step
\* it reaches.  Offline every package is answered unknown; online every
\* package is queued and, once the batch request succeeds, its entry is
\* written at now with the list the call returns.
C12_RefreshBypassesReads ==
  (call.op = "batchQuery" /\ call.cfg.refreshCache) =>
     /\ Answered
     /\ \A k \in CallKeys : call.response[k].source # "cache"
     /\ \A e \in EnrichEntries :
          ~DetailReadHit(e) /\ ~NvdReadHit(e) /\ ~GhsaReadHit(e)
     /\ call.cfg.offline =>
          \A k \in CallKeys : call.response[k] = Result("unknown", <<>>)
     /\ ~call.cfg.offline =>
          /\ QueuedKeys = CallKeys
          /\ call.batchRequests = (IF CallKeys = {} THEN 0 ELSE 1)
          /\ call.batchStatus = "ok" =>
               \A k \in CallKeys :
                 /\ call.response[k].source = "osv"
                 /\ fs.batch[k].exists /\ fs.batch[k].mtime = now
                 /\ fs.batch[k].returned = call.response[k].vulnerabilities

C12_Witness ==
  /\ call.op = "batchQuery" /\ call.cfg.refreshCache /\ ~call.cfg.offline
  /\ call.batchStatus = "ok"
  /\ \E k \in CallKeys :
       /\ Fresh(call.before.batch[k]) /\ call.before.batch[k].mtime < now
       /\ call.response[k].source = "osv"
       /\ fs.batch[k].mtime = now
  /\ \E e \in EnrichEntries :
       /\ Fresh(call.before.details[e.id]) /\ Sent(e, "detail")
       /\ \E c \in CveIds : Fresh(call.before.nvd[c])
       /\ Sent(e, "nvd")

\* ------------------------------------------------ claims of sortFindings
\* Helpers over the record of the last sortFindings call.
Sorted == lib.op = "sortFindings"
IdsOf(f) == [i \in 1..Len(f.vulnerabilities) |-> f.vulnerabilities[i].id]
Occurrences(list, f) == Cardinality({i \in 1..Len(list) : list[i] = f})
IsPermutation(a, b) ==
  /\ Len(a) = Len(b)
  /\ \A f \in Range(a) \cup Range(b) : Occurrences(a, f) = Occurrences(b, f)

\* Ascending by package name, then by version, then by the advisory ids
\* (as the string of the ids joined by commas); equal triples are in order.
NameVersionIdsOrder(f, g) ==
  \/ StrLess(CodeUnits[f.packageName], CodeUnits[g.packageName])
  \/ /\ f.packageName = g.packageName
     /\ \/ StrLess(CodeUnits[f.version], CodeUnits[g.version])
        \/ /\ f.version = g.version
           /\ ~StrLess(Join(IdsOf(g)), Join(IdsOf(f)))

\* C13 as stated: the output of sortFindings is a permutation of the input,
\* no finding comes after one of lower severity, and findings of equal
\* severity are ascending by package name, then version, then advisory ids.
C13_AsStated ==
  Sorted =>
     /\ IsPermutation(lib.input, lib.output)
     /\ \A i, j \in 1..Len(lib.output) :
          i < j =>
            /\ sevRank[lib.output[i].severity] >= sevRank[lib.output[j].severity]
            /\ lib.output[i].severity = lib.output[j].severity =>
                 NameVersionIdsOrder(lib.output[i], lib.output[j])

\* What holds of the code: a permutation, by severity, and within a
\* severity ascending by the key string name:version:ids.
C13_KeyOrder ==
  Sorted =>
     /\ IsPermutation(lib.input, lib.output)
     /\ \A i, j \in 1..Len(lib.output) :
          i < j =>
            /\ sevRank[lib.output[i].severity] >= sevRank[lib.output[j].severity]
            /\ ~StrLess(SortKey(lib.output[j]), SortKey(lib.output[i]))

\* Two findings of one severity whose names are a and a-b, sorted.
C13_Witness ==
  /\ Sorted /\ Len(lib.output) = 2
  /\ lib.output[1].severity = lib.output[2].severity
  /\ lib.output[1].packageName = "a-b" /\ lib.output[2].packageName = "a"
  /\ lib.input[1] = lib.output[2]

\* The orderings of a list, and the findings of a list that share a key.
Orderings(list) ==
  {[i \in 1..Len(list) |-> list[pi[i]]] : pi \in Permutations(1..Len(list))}
DistinctNameVersion(list) ==
  \A i, j \in 1..Len(list) :
    i # j => \/ list[i].packageName # list[j].packageName
             \/ list[i].version # list[j].version
WithKeyOf(list, f) == FilterSeq(list, {g \in Range(list) : SortKey(g) = SortKey(f)})

\* C14: the output of sortFindings depends on the content of the findings
\* only: every ordering of a list of findings with distinct package name and
\* version sorts to the same sequence; and the findings that share a sort
\* key come out in the order they went in.
C14_OrderIndependent ==
  Sorted =>
     /\ DistinctNameVersion(lib.input) =>
          \A other \in Orderings(lib.input) : sortFindings(other) = lib.output
     /\ \A f \in Range(lib.input) :
          WithKeyOf(lib.output, f) = WithKeyOf(lib.input, f)

C14_Witness ==
  /\ Sorted /\ Len(lib.input) = 3
  /\ DistinctNameVersion(lib.input)
  /\ lib.output = <<lib.input[3], lib.input[1], lib.input[2]>>
  /\ lib.output[1].severity = "high" /\ lib.output[2].severity = "unknown"

\* -------------------------------------------------- claims of shouldFail
AskedFailOn == lib.input[1]
AskedSeverity == lib.input[2]

\* C16 as stated: shouldFail is true exactly when failOn is critical, high,
\* medium or low and the severity is a known value of rank at least failOn's;
\* it is false when failOn is none and when an argument is not a known value.
C16_AsStated ==
  lib.op = "shouldFail" =>
     lib.output = (/\ AskedFailOn \in KnownSeverities
                   /\ AskedSeverity \in Severities
                   /\ RankOf(AskedSeverity) >= RankOf(AskedFailOn))

\* What holds of the code: the claim for the thresholds critical, high,
\* medium and low and for strings that are no threshold or no severity.
C16_KnownThresholds ==
  (lib.op = "shouldFail" /\ AskedFailOn \notin {"none", "unknown"}) =>
     lib.output = (/\ AskedFailOn \in KnownSeverities
                   /\ AskedSeverity \in Severities
                   /\ RankOf(AskedSeverity) >= RankOf(AskedFailOn))

C16_Witness ==
  /\ lib.op = "shouldFail"
  /\ AskedFailOn = "none" /\ AskedSeverity = "critical"
  /\ lib.output = TRUE

\* ------------------------------------------------ claims of the lockfile
\* The occurrences of a dependency in the lockfile that was parsed: name,
\* version and whether that occurrence is direct.
Parsed == lib.op = "parsePackageLock"
PackageOccurrences(lock) ==
  IF lock.lockfileVersion >= 2
  THEN {DependencyNode(getPackageNameFromPath(e.path), e.version,
                       isDirectPackagePath(e.path)) :
          e \in {x \in Range(lock.packages) :
                   getPackageNameFromPath(x.path) # Null /\ x.version # Undefined}}
  ELSE {}
LegacyOccurrences(lock) ==
  LET tops == {d \in Range(lock.dependencies) : d.version # Undefined}
      nested == {c \in UNION {Range(d.dependencies) : d \in tops} :
                   c.version # Undefined}
  IN {DependencyNode(d.name, d.version, TRUE) : d \in tops}
       \cup {DependencyNode(c.name, c.version, FALSE) : c \in nested}
PnpmOccurrences(lock) ==
  {DependencyNode(k.name, k.version, k.name \in lock.directNames) :
     k \in {x \in Range(lock.packages) : x.version # ""}}
LockOccurrences ==
  IF lib.input.kind = "pnpm-lock.yaml" THEN PnpmOccurrences(lib.input.lock)
  ELSE IF PackageOccurrences(lib.input.lock) # {}
       THEN PackageOccurrences(lib.input.lock)
  ELSE LegacyOccurrences(lib.input.lock)
SameDependency(node, o) == node.name = o.name /\ node.version = o.version

\* C15: the dependencies parsed from a lockfile hold exactly one node for
\* every name@version that occurs in it, however often and in whatever
\* order it occurs, and that node is direct iff an occurrence is direct.
C15_OneNodePerDependency ==
  Parsed =>
     /\ \A i, j \in 1..Len(lib.output) :
          i # j => ~SameDependency(lib.output[i], lib.output[j])
     /\ \A o \in LockOccurrences :
          \E i \in 1..Len(lib.output) : SameDependency(lib.output[i], o)
     /\ \A i \in 1..Len(lib.output) :
          /\ \E o \in LockOccurrences : SameDependency(lib.output[i], o)
          /\ lib.output[i].direct =
               (\E o \in LockOccurrences :
                  SameDependency(lib.output[i], o) /\ o.direct)

\* A nested a@1 first, the direct a@1 later, and a second dependency.
C15_Witness ==
  /\ Parsed /\ lib.input.kind = "package-lock.json"
  /\ lib.input.lock.lockfileVersion = 2
  /\ Len(lib.input.lock.packages) = 3
  /\ lib.input.lock.packages[1].path = <<NodeModules, "b", NodeModules, "a">>
  /\ lib.input.lock.packages[3].path = <<NodeModules, "a">>
  /\ lib.output = <<DependencyNode("a", "1", TRUE), DependencyNode("b", "2", TRUE)>>

\* ------------------------------------------- claims of runScan's findings
ResultOf(dep) == call.response[Key(dep)]

\* C17: runScan emits at most one finding per dependency: none for a
\* dependency whose lookup result has source osv or cache and no
\* vulnerabilities, exactly one, with empty vulnerabilities, for a dependency
\* whose lookup result has source unknown; so a finding has an empty list of
\* vulnerabilities iff its source is unknown.
C17_FindingPerDependency ==
  scan.op = "runScan" =>
     /\ \A i \in 1..Len(scan.deps) :
          /\ Cardinality(FindingsOfDep(scan.deps[i])) <= 1
          /\ (/\ ResultOf(scan.deps[i]).source \in {"osv", "cache"}
              /\ ResultOf(scan.deps[i]).vulnerabilities = <<>>)
               => FindingsOfDep(scan.deps[i]) = {}
          /\ ResultOf(scan.deps[i]).source = "unknown"
               => /\ Cardinality(FindingsOfDep(scan.deps[i])) = 1
                  /\ \A j \in FindingsOfDep(scan.deps[i]) :
                       ScanFindings[j].vulnerabilities = <<>>
     /\ \A j \in 1..Len(ScanFindings) :
          /\ \E i \in 1..Len(scan.deps) : j \in FindingsOfDep(scan.deps[i])
          /\ (ScanFindings[j].vulnerabilities = <<>>)
               <=> (ScanFindings[j].source = "unknown")

\* One dependency read clean from the cache, the other one not looked up.
C17_Witness ==
  /\ scan.op = "runScan" /\ Len(scan.deps) = 2 /\ Len(ScanFindings) = 1
  /\ \E i \in 1..2 :
       /\ ResultOf(scan.deps[i]).source = "cache"
       /\ ResultOf(scan.deps[i]).vulnerabilities = <<>>
       /\ FindingsOfDep(scan.deps[i]) = {}
  /\ \E i \in 1..2 :
       /\ ResultOf(scan.deps[i]).source = "unknown"
       /\ FindingsOfDep(scan.deps[i]) # {}

\* ------------------------------------------ claims of the severity source
\* The vulnerabilities of the last batchQuery answer.
Returned ==
  UNION {Range(call.response[k].vulnerabilities) : k \in CallKeys}
ReturnedFrom(source) ==
  UNION {Range(call.response[k].vulnerabilities) :
           k \in {x \in CallKeys : call.response[x].source = source}}
EnrichedSources == {"osv_detail_cvss", "osv_detail_label", "alias_cvss",
                    "ghsa_cvss", "ghsa_label"}

\* C18: every vulnerability that batchQuery returns, whether normalized from
\* the batch response, enriched by a fallback or read from the cache, has a
\* known severity (critical, high, medium, low) iff its severitySource is
\* not unknown.
C18_KnownIffSourced ==
  call.op = "batchQuery" =>
     \A v \in Returned :
       (v.severity \in KnownSeverities) <=> (v.severitySource # "unknown")

\* An answer read from the cache that holds a vulnerability graded by a
\* fallback.
C18_Witness ==
  /\ call.op = "batchQuery"
  /\ \E v \in ReturnedFrom("cache") :
       v.severitySource \in EnrichedSources /\ v.severity \in KnownSeverities

\* ------------------------------------------- claims of a finding's grading
Overridden(f) == f.severitySource = "policy_override"
HasReason(f) == f.unknownReason # Undefined

EnrichmentRan == call.op = "batchQuery" /\ call.enrich # <<>>
Fetched == ReturnedFrom("osv")
EntriesOf(v) == {e \in EnrichEntries : e.id = v.id}
StillUnknown == {v \in Fetched : v.severity = "unknown"}
ResolvedByEnrichment ==
  {v \in Fetched : \E e \in EntriesOf(v) : e.res.severity # "unknown"}

\* C20 as stated: after an enrichment pass, every vulnerability of a fetched
\* package whose severity is still unknown has unknownReason lookup_failed,
\* whether a fallback step threw or all steps completed without a severity;
\* every vulnerability the pass resolved has a known severity, a source that
\* is not unknown, and no unknownReason.
C20_AsStated ==
  EnrichmentRan =>
     /\ \A v \in StillUnknown : v.unknownReason = "lookup_failed"
     /\ \A v \in ResolvedByEnrichment :
          /\ v.severity \in KnownSeverities
          /\ v.severitySource # "unknown"
          /\ v.unknownReason = Undefined

\* What the pass does: a vulnerability whose worker threw ends with
\* lookup_failed, one whose steps all completed without a severity keeps
\* missing_score, and a resolved one is as the claim says.
C20_ThrownIsLookupFailed ==
  EnrichmentRan =>
     /\ \A v \in StillUnknown :
          \A e \in EntriesOf(v) :
            v.unknownReason = IF e.threw THEN "lookup_failed" ELSE "missing_score"
     /\ \A v \in ResolvedByEnrichment :
          /\ v.severity \in KnownSeverities
          /\ v.severitySource # "unknown"
          /\ v.unknownReason = Undefined

\* A pass whose detail, NVD and GHSA steps all answered without a severity.
C20_Witness ==
  /\ EnrichmentRan
  /\ \E v \in StillUnknown :
       \E e \in EntriesOf(v) :
         /\ ~e.threw /\ Sent(e, "detail") /\ Sent(e, "nvd") /\ Sent(e, "ghsa")
         /\ v.unknownReason = "missing_score"

\* --------------------------------------- claims of the order of fallbacks
\* The position of a request's endpoint in the chain, and the requests of
\* an entry of the enrichment pass in the order they were sent.
StepRank == [detail |-> 1, nvd |-> 2, ghsa |-> 3]
InChainOrder(e) ==
  \A i, j \in 1..Len(e.reqs) :
    i < j => /\ StepRank[e.reqs[i].kind] <= StepRank[e.reqs[j].kind]
             /\ e.reqs[i] # e.reqs[j]
SentTo(e, kind, id) == \E i \in 1..Len(e.reqs) : e.reqs[i] = Req(kind, id)

\* C21: for each unknown-severity vulnerability the fallback requests go out
\* in the order OSV detail, NVD per CVE alias, GHSA per GHSA id, and the chain
\* stops at the first step with a severity: a vulnerability resolved by its
\* detail document (osv_detail_*) has no NVD or GHSA request, one resolved by
\* an NVD score (alias_cvss) has no GHSA request, and ghsa_cvss / ghsa_label
\* appear only after the detail step and an NVD request for every CVE alias
\* gave no severity.
C21_ChainOrder ==
  call.op = "batchQuery" =>
     \A e \in EnrichEntries :
       /\ InChainOrder(e)
       /\ e.res.severitySource \in {"osv_detail_cvss", "osv_detail_label"}
            => ~Sent(e, "nvd") /\ ~Sent(e, "ghsa")
       /\ e.res.severitySource = "alias_cvss" => ~Sent(e, "ghsa")
       /\ e.res.severitySource \in {"ghsa_cvss", "ghsa_label"}
            => /\ \A c \in CveIds : SentTo(e, "nvd", c)
               /\ Sent(e, "detail") \/ Fresh(call.before.details[e.id])

\* A vulnerability graded by the advisory after a detail request and an NVD
\* request that gave nothing.
C21_Witness ==
  /\ call.op = "batchQuery"
  /\ \E e \in EnrichEntries :
       /\ e.res.severitySource = "ghsa_label"
       /\ e.reqs = <<Req("detail", e.id), Req("nvd", "CVE-1"), Req("ghsa", "GHSA-1")>>

\* ---------------------------------------------- claims of the aggregation
Graded == lib.op = "VulnFinding"
GradedFinding == lib.output[1]
MaxRankOf(vulns) ==
  CHOOSE r \in 1..5 :
    /\ \E i \in 1..Len(vulns) : sevRank[vulns[i].severity] = r
    /\ \A i \in 1..Len(vulns) : sevRank[vulns[i].severity] <= r
FirstOfRank(vulns, r) ==
  CHOOSE i \in 1..Len(vulns) :
    /\ sevRank[vulns[i].severity] = r
    /\ \A j \in 1..(i - 1) : sevRank[vulns[j].severity] # r

\* C28: the finding of a dependency with a non-empty vulnerability list has
\* the maximum severity of the list in the order critical > high > medium >
\* low > unknown, and the severitySource and unknownReason of the first
\* vulnerability of the list that has this severity.
C28_HighestFirst ==
  Graded =>
     /\ sevRank[GradedFinding.severity] = MaxRankOf(lib.input)
     /\ GradedFinding.severitySource =
          lib.input[FirstOfRank(lib.input, MaxRankOf(lib.input))].severitySource
     /\ GradedFinding.unknownReason =
          lib.input[FirstOfRank(lib.input, MaxRankOf(lib.input))].unknownReason
     /\ GradedFinding.vulnerabilities = lib.input

\* Two vulnerabilities of the highest severity behind a lower one: the
\* finding takes the source of the first of the two.
C28_Witness ==
  /\ Graded /\ Len(lib.input) = 3
  /\ lib.input[1].severity = "low"
  /\ lib.input[2].severity = "high" /\ lib.input[2].severitySource = "alias_cvss"
  /\ lib.input[3].severity = "high" /\ lib.input[3].severitySource = "osv_cvss"
  /\ GradedFinding.severity = "high" /\ GradedFinding.severitySource = "alias_cvss"

\* ------------------------------------------ claims of what is not cached
\* The batch entry of a package is as the call found it, or was unlinked
\* by the call's prune (its age exceeded the TTL).
EntryUntouched(k) ==
  \/ fs.batch[k] = call.before.batch[k]
  \/ /\ ~fs.batch[k].exists /\ call.pruned
     /\ call.before.batch[k].exists /\ Expired(call.before.batch[k], now)

\* C29: a failed lookup is never cached: when the batch request of an online
\* call fails, the batch entry of no queued package is created or modified;
\* an offline call leaves the whole directory as it was; so an entry that a
\* call created or modified is the entry of a package it queued and whose
\* batch request succeeded, never the trace of a failed lookup.
C29_FailureNotCached ==
  call.op = "batchQuery" =>
     /\ (~call.cfg.offline /\ call.batchStatus # "ok")
          => \A k \in QueuedKeys : EntryUntouched(k)
     /\ call.cfg.offline => fs = call.before
     /\ \A k \in Keys :
          ~EntryUntouched(k)
            => /\ ~call.cfg.offline /\ call.batchStatus = "ok" /\ k \in QueuedKeys
               /\ fs.batch[k].exists /\ fs.batch[k].mtime = now

\* A refresh run whose batch request fails: one queued package had a fresh
\* entry, which is kept, the other had none and has none afterwards.
C29_Witness ==
  /\ call.op = "batchQuery" /\ ~call.cfg.offline /\ call.batchStatus = "throw"
  /\ \E k \in QueuedKeys :
       /\ call.before.batch[k].exists /\ fs.batch[k] = call.before.batch[k]
       /\ call.response[k] = Result("unknown", <<>>)
  /\ \E k \in QueuedKeys :
       /\ ~call.before.batch[k].exists /\ ~fs.batch[k].exists
       /\ call.response[k] = Result("unknown", <<>>)

\* ------------------------------------------------ claim C30 (alignment)
\* The vulnerabilities the batch endpoint listed at position i of its
\* answer to the last call, and whether the position answers nothing.
ListedAt(i) ==
  IF i <= Len(call.batchResults) /\ call.batchResults[i].hasVulns
  THEN call.batchResults[i].vulns
  ELSE <<>>
BatchAnswered ==
  call.op = "batchQuery" /\ ~call.cfg.offline /\ call.batchRequests = 1
    /\ call.batchStatus = "ok"

\* C30: after a 2xx batch response the package at position i of the fetch
\* queue is answered with source osv and exactly the vulnerabilities of
\* results[i], in order (a vulnerability graded by the response itself is
\* its normalization); a position past the end of results, or whose result
\* has no vulns array, is answered with an empty list, the empty list is
\* written to the package's cache entry, and the scan has no finding for
\* the package.
C30_PositionalAlignment ==
  BatchAnswered =>
    \A i \in 1..Len(call.toFetch) :
      LET k == Key(call.toFetch[i])
          raw == ListedAt(i)
          got == call.response[k]
      IN /\ got.source = "osv"
         /\ Len(got.vulnerabilities) = Len(raw)
         /\ \A j \in 1..Len(raw) :
              /\ got.vulnerabilities[j].id = raw[j].id
              /\ normalizeVuln(raw[j], "osv").severity # "unknown"
                   => got.vulnerabilities[j] = normalizeVuln(raw[j], "osv")
         /\ fs.batch[k].exists /\ fs.batch[k].mtime = now
         /\ fs.batch[k].returned = got.vulnerabilities
         /\ raw = <<>> =>
              /\ fs.batch[k].data = StringifyList(<<>>)
              /\ scan.op = "runScan" => FindingsOfDep(call.toFetch[i]) = {}

\* A scan queued two packages and the endpoint answered 2xx with a single
\* result: the first package has its vulnerability, the second is recorded
\* clean, cached as clean and absent from the findings.
C30_Witness ==
  /\ BatchAnswered /\ scan.op = "runScan"
  /\ Len(call.toFetch) = 2 /\ Len(call.batchResults) = 1
  /\ call.batchResults[1].hasVulns
  /\ Len(call.response[Key(call.toFetch[1])].vulnerabilities) = 1
  /\ call.response[Key(call.toFetch[2])] = Result("osv", <<>>)
  /\ fs.batch[Key(call.toFetch[2])].exists
  /\ fs.batch[Key(call.toFetch[2])].returned = <<>>
  /\ FindingsOfDep(call.toFetch[1]) # {}
  /\ FindingsOfDep(call.toFetch[2]) = {}

\* --------------------------------------------- claim C27 (write errors)
\* The last call sent its batch request, got a 2xx answer, and some write
\* of the call's disk fails.
AnsweredOnDisk ==
  call.op = "batchQuery" /\ call.batchRequests = 1 /\ call.batchStatus = "ok"
BatchWriteFails == QueuedKeys \cap call.disk.batch # {}
SubWriteFails == call.disk.details \/ call.disk.nvd \/ call.disk.ghsa

\* C27: after a successful batch response a failing cache write does not
\* change the lookup result of any package: the call answers what it
\* answers when every write succeeds, every fetched package with source osv
\* and its normalized vulnerabilities.
C27_AsStated ==
  AnsweredOnDisk =>
    /\ call.response = call.healthy
    /\ \A k \in QueuedKeys : call.response[k].source = "osv"

\* What the client does instead: a failing write of one batch entry turns
\* every fetched package into source unknown; a failing write under
\* details/, nvd/ or ghsa/ leaves the packages at source osv and turns the
\* vulnerability whose worker wrote into unknown with reason lookup_failed.
C27_WriteFailureIsLookupFailure ==
  AnsweredOnDisk =>
    /\ \A k \in CallKeys \ QueuedKeys : call.response[k] = call.healthy[k]
    /\ BatchWriteFails
         => \A k \in QueuedKeys : call.response[k] = Result("unknown", <<>>)
    /\ ~BatchWriteFails
         => \A k \in QueuedKeys :
              LET got == call.response[k].vulnerabilities
                  want == call.healthy[k].vulnerabilities
              IN /\ call.response[k].source = "osv"
                 /\ Len(got) = Len(want)
                 /\ \A j \in 1..Len(got) :
                      \/ got[j] = want[j]
                      \/ /\ SubWriteFails
                         /\ got[j] = [want[j] EXCEPT !.severity = "unknown",
                                                     !.severitySource = "unknown",
                                                     !.unknownReason = "lookup_failed"]

\* Two packages were fetched with a 2xx answer, the entry of the first was
\* written, the write of the second threw, and both are answered unknown.
C27_Witness ==
  /\ AnsweredOnDisk /\ Len(call.toFetch) = 2
  /\ call.disk.batch = {Key(call.toFetch[2])}
  /\ \A k \in QueuedKeys : call.healthy[k].source = "osv"
  /\ \A k \in QueuedKeys : call.response[k] = Result("unknown", <<>>)
  /\ fs.batch[Key(call.toFetch[1])].exists
  /\ fs.batch[Key(call.toFetch[1])].mtime = now
  /\ fs.batch[Key(call.toFetch[2])] = call.before.batch[Key(call.toFetch[2])]

\* ------------------------------------------- claims of the worker pool
\* The closures that hold an item, and those with a request in flight.
Busy == {w \in 1..Len(pool.workers) : pool.workers[w].st = "busy"}
InFlight ==
  {w \in Busy : pool.workers[w].pc \in {"fetchDetail", "fetchNvd", "fetchGhsa"}}

\* C22: during the enrichment pass at most 6 workers exist and hold an
\* item, so at most 6 fallback requests are in flight, whatever the number
\* of unresolved vulnerabilities; with n < 6 of them at most n workers run.
C22_AtMostSixWorkers ==
  pool.op = "enrich" =>
    /\ Len(pool.workers) <= ENRICH_CONCURRENCY
    /\ Len(pool.workers) <= Len(pool.items)
    /\ Cardinality(Busy) <= Len(pool.workers)
    /\ Cardinality(InFlight) <= Cardinality(Busy)
    /\ Cardinality(InFlight) <= ENRICH_CONCURRENCY

\* Seven unresolved vulnerabilities: six requests are in flight and the
\* seventh item waits in the queue.
C22_Witness ==
  /\ pool.op = "enrich" /\ Len(pool.items) = 7
  /\ Cardinality(InFlight) = 6 /\ pool.next = 6

\* The indexes taken so far are 1..next in this order, each index is held
\* by one closure or has its result, and a result stands at the position of
\* its item.
PoolLosesNothing ==
  pool.op = "enrich" =>
    /\ pool.next <= Len(pool.items)
    /\ pool.taken = [i \in 1..pool.next |-> i]
    /\ \A v, w \in Busy : pool.workers[v].idx = pool.workers[w].idx => v = w
    /\ \A i \in 1..Len(pool.items) :
         LET held == \E w \in Busy : pool.workers[w].idx = i
         IN /\ i <= pool.next <=> (held \/ pool.out[i].set)
            /\ ~(held /\ pool.out[i].set)
            /\ pool.out[i].set => pool.out[i].id = pool.items[i].id
    /\ PoolFinished(pool) =>
         /\ pool.next = Len(pool.items)
         /\ \A i \in 1..Len(pool.items) : pool.out[i].set
PoolDrained ==
  /\ pool.op = "enrich" /\ PoolFinished(pool)
  /\ \A i \in 1..Len(pool.items) : pool.out[i].set

\* C23: under every interleaving of the worker steps each item is taken
\* once, in queue order, by one worker, the result at position i belongs to
\* item i, and a pass that started ends with every worker returned and
\* every result present.
C23_PoolTerminates == []PoolLosesNothing /\ (pool.op = "enrich" ~> PoolDrained)

\* A pass over seven items ended: all six workers returned and the seven
\* results are in place.
C23_Witness ==
  /\ PoolDrained /\ Len(pool.items) = 7 /\ Len(pool.workers) = 6
  /\ \A i \in 1..7 : pool.out[i].id = ItemIds[i]

\* What the pass assigns when its workers run one after the other.
OneByOne ==
  enrichUnknownVulns(pool.items, pool.cfg, pool.dir0, pool.net, now).enriched

\* C24: for fixed answers of the detail, NVD and GHSA endpoints the
\* severity, severitySource and unknownReason of every result are those of
\* the workers run one after the other, under every interleaving and also
\* when two vulnerabilities share the alias CVE-1 or the advisory GHSA-1
\* and its cache entry.
C24_InterleavingIndependent ==
  pool.op = "enrich" =>
    \A i \in 1..Len(pool.items) :
      pool.out[i].set =>
        /\ OneByOne[i].id = pool.out[i].id
        /\ OneByOne[i].res = pool.out[i].res

\* Two advisories that share CVE-1 were both graded from its NVD score,
\* and the score was written to the shared cache entry during the pass.
C24_Witness ==
  /\ PoolDrained /\ Len(pool.items) = 2
  /\ \A i \in 1..2 : pool.out[i].res.severitySource = "alias_cvss"
  /\ ~pool.dir0.nvd["CVE-1"].exists /\ pool.dir.nvd["CVE-1"].exists

\* ------------------------------------------- claims of concurrent runs
\* What run r answers when it runs alone on the directory the two runs
\* started on, against the same endpoint.
AloneQueue(r) ==
  ToFetch(runs.run[r].packages, Cfg(FALSE, runs.run[r].refreshCache, FALSE),
          pruneExpiredCache(runs.dir0, now), now)
Alone(r) ==
  batchQuery(runs.run[r].packages, Cfg(FALSE, runs.run[r].refreshCache, FALSE),
             runs.dir0,
             [NetDown EXCEPT !.batch =
                [status |-> "ok",
                 results |-> [i \in 1..Len(AloneQueue(r)) |->
                                Answer(Key(AloneQueue(r)[i]))]]],
             now).response
RunKeys(r) == {Key(runs.run[r].packages[i]) : i \in 1..Len(runs.run[r].packages)}
BothReturned == runs.op = "runs" /\ RunsFinished(runs)

Unlinks == runs.run[1].unlinks \cup runs.run[2].unlinks
WroteEntry(r, k) ==
  \E n \in 1..Len(runs.run[r].toFetch) :
    /\ Key(runs.run[r].toFetch[n]) = k
    /\ runs.run[r].pc = "done" \/ (runs.run[r].pc = "write" /\ n < runs.run[r].w)

\* C26: pruning removes only expired entries: at the moment a prune
\* unlinks a cache file, the age of the file exceeds the TTL, also when the
\* other run rewrote the file after the prune's stat.
C26_AsStated ==
  runs.op = "runs" => \A u \in Unlinks : u.expired

\* What the prune guarantees: a file it unlinks stands at the path of an
\* entry that was expired when the runs started, and the file is a fresh
\* one only when the other run wrote it after the prune's stat.
C26_StatWasExpired ==
  runs.op = "runs" =>
    \A r \in 1..2 : \A u \in runs.run[r].unlinks :
      /\ runs.dir0.batch[u.key].exists /\ Expired(runs.dir0.batch[u.key], now)
      /\ ~u.expired => WroteEntry(3 - r, u.key)

\* The prune of one run unlinked the fresh entry that the other run had
\* just written, and the entry is gone.
C26_Witness ==
  /\ BothReturned
  /\ \E u \in runs.run[1].unlinks :
       /\ ~u.expired /\ WroteEntry(2, u.key) /\ ~runs.dir.batch[u.key].exists

====
